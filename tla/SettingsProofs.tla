---------------------------- MODULE SettingsProofs ----------------------------
(***************************************************************************)
(* With the settings added, sessions still do only what Session says; what *)
(* SessionProofs shows of them then carries the settings' own properties.  *)
(***************************************************************************)
EXTENDS Settings, SessionProofs

USE SessionAssumption, SettingsAssumption

\* A policy table has a row, and after an update no two different ones.
OneValue ==
    \A p \in Policies :
        /\ policy[p] # <<>>
        /\ stored[p] # Nothing => \A i \in DOMAIN policy[p] : policy[p][i] = stored[p]

SettingsInv ==
    /\ SettingsTypeOK
    /\ OneValue

----------------------------------------------------------------------------
\* Every step of the settings is a step of Session or leaves it alone.
LEMMA SettingsStepIsSessionStep == [AllNext]_allVars => [Next]_vars
  BY DEF AllNext, allVars, SettingsNext, CreatePolicy, UpdateAzurePolicy, UpdateAwsPolicy,
         UpdatePolicy, CreateSecret, UpdateSecret, DeleteSecret

\* The settings implement Session: its rules of users and cookies hold on.
THEOREM SettingsImplementSession == AllSpec => Spec
  <1>1. AllInit => Init
    BY DEF AllInit
  <1> QED
    BY <1>1, SettingsStepIsSessionStep, PTL DEF AllSpec, Spec

LEMMA SettingsInitHolds == AllInit => SettingsInv
  <1> SUFFICES ASSUME AllInit PROVE SettingsInv
    OBVIOUS
  <1>1. PICK v \in Values : policy = [p \in Policies |-> <<v>>]
    BY DEF AllInit, SettingsInit
  <1>2. \A p \in Policies : policy[p] \in Seq(Values) /\ policy[p] # <<>>
    BY <1>1
  <1> QED
    BY <1>1, <1>2 DEF AllInit, SettingsInit, SettingsInv, SettingsTypeOK, OneValue

LEMMA SettingsStep == TypeOK /\ SettingsInv /\ [AllNext]_allVars => SettingsInv'
  <1> SUFFICES ASSUME TypeOK, SettingsInv, [AllNext]_allVars PROVE SettingsInv'
    OBVIOUS
  <1> USE DEF SettingsInv, SettingsTypeOK, OneValue
  <1>1. ASSUME NEW b \in Browsers, NEW p \in AzurePolicies, NEW v \in Values,
               CreatePolicy(b, p, v)
        PROVE  SettingsInv'
    <2>1. p \in Policies /\ Append(policy[p], v) \in Seq(Values) /\ Append(policy[p], v) # <<>>
      BY DEF Policies
    <2> QED
      BY <1>1, <2>1 DEF CreatePolicy
  <1>2. ASSUME NEW b \in Browsers, NEW p \in Policies, NEW v \in Values, UpdatePolicy(b, p, v)
        PROVE  SettingsInv'
    <2>1. AllRows(p, v) = [i \in 1..Len(policy[p]) |-> v]
      BY DEF AllRows
    <2>2. AllRows(p, v) \in Seq(Values) /\ Len(AllRows(p, v)) = Len(policy[p])
      BY <2>1
    <2>3. /\ AllRows(p, v) # <<>>
          /\ \A i \in DOMAIN AllRows(p, v) : AllRows(p, v)[i] = v
      BY <2>1, <2>2
    <2> QED
      BY <1>2, <2>2, <2>3 DEF UpdatePolicy
  <1>3. ASSUME NEW b \in Browsers, NEW s \in Secrets, CreateSecret(b, s) PROVE SettingsInv'
    <2>1. access[b].id \in Users
      BY <1>3 DEF CreateSecret, TypeOK, Tokens, Users
    <2> QED
      BY <1>3, <2>1 DEF CreateSecret, Users
  <1>4. ASSUME NEW b \in Browsers, NEW s \in Secrets, UpdateSecret(b, s) PROVE SettingsInv'
    <2>1. PICK u \in {secret[s]} \cup 1..lastUser : secret' = [secret EXCEPT ![s] = u]
      BY <1>4 DEF UpdateSecret
    <2>2. u \in Users \cup {Nothing}
      BY <2>1 DEF TypeOK, Users
    <2> QED
      BY <1>4, <2>1, <2>2 DEF UpdateSecret, Selects, TypeOK, Tokens
  <1>5. ASSUME NEW b \in Browsers, NEW s \in Secrets, DeleteSecret(b, s) PROVE SettingsInv'
    BY <1>5 DEF DeleteSecret
  <1>6. CASE UNCHANGED settings
    BY <1>6 DEF settings
  <1> QED
    BY <1>1, <1>2, <1>3, <1>4, <1>5, <1>6
       DEF AllNext, SettingsNext, allVars, UpdateAzurePolicy, UpdateAwsPolicy

LEMMA SettingsInvHolds == AllSpec => [](IInv /\ SettingsInv)
  <1>1. AllSpec => []IInv
    BY SettingsImplementSession, IInvHolds, PTL
  <1>2. IInv /\ SettingsInv /\ [AllNext]_allVars => SettingsInv'
    BY SettingsStep DEF IInv
  <1> QED
    BY SettingsInitHolds, <1>1, <1>2, PTL DEF AllSpec

\* Policies and secrets keep their types.
THEOREM SettingsTypes == AllSpec => []SettingsTypeOK
  BY SettingsInvHolds, PTL DEF SettingsInv

\* Whichever row findFirst returns, it says what the last update stored.
THEOREM PolicyReads == AllSpec => []UpdatesAreRead
  <1>1. SettingsInv => UpdatesAreRead
    <2> SUFFICES ASSUME SettingsInv, NEW p \in Policies, stored[p] # Nothing
                 PROVE  AnyRow(p) = {stored[p]}
      BY DEF UpdatesAreRead, GetAzurePolicy, GetAwsPolicy, Policies, AnyRow
    <2>1. policy[p] \in Seq(Values) /\ policy[p] # <<>>
      BY DEF SettingsInv, SettingsTypeOK, OneValue
    <2>2. 1 \in DOMAIN policy[p]
      BY <2>1
    <2>3. \A i \in DOMAIN policy[p] : policy[p][i] = stored[p]
      BY DEF SettingsInv, OneValue
    <2> QED
      BY <2>2, <2>3 DEF AnyRow
  <1> QED
    BY SettingsInvHolds, <1>1, PTL

\* A secret is changed, handed over or deleted only by a session of its user, or
\* the test login's, with a staff role that is still the user's or was lately.
THEOREM SecretChanges == AllSpec => SecretsOwn
  <1> DEFINE Allowed(s) ==
        \E b \in Browsers :
          /\ access[b] # Nothing
          /\ b \notin crossed => who[b] \in {0, secret[s]}
          /\ LET t == access[b] IN
             t.id = 0 \/ user[t.id].role \in Staff \/ since[t.id] <= t.age
  <1> DEFINE Changed(s) ==
        secret[s] # Nothing /\ (secret'[s] # secret[s] \/ writer'[s] # writer[s])
  <1>1. ASSUME IInv, NEW b \in Browsers, NEW s \in Secrets, Selects(b, s)
        PROVE  Allowed(s)
    <2>1. /\ access[b] # Nothing /\ access[b].role \in Staff
          /\ access[b].id \in {0, secret[s]}
      BY <1>1 DEF Selects
    <2>2. b \notin crossed => who[b] = access[b].id
      BY <1>1, <2>1 DEF IInv, SessionIsOneUser
    <2>3. access[b].id = 0 \/ access[b].role = user[access[b].id].role
                           \/ since[access[b].id] <= access[b].age
      BY <1>1, <2>1 DEF IInv, DemotionBites, Staff
    <2> QED
      BY <2>1, <2>2, <2>3
  <1>2. IInv /\ SettingsInv /\ [AllNext]_allVars => [\A s \in Secrets : Changed(s) => Allowed(s)]_allVars
    <2> SUFFICES ASSUME IInv, SettingsInv, [AllNext]_allVars, NEW s \in Secrets, Changed(s)
                 PROVE  Allowed(s)
      OBVIOUS
    <2>1. ASSUME NEW b \in Browsers, NEW z \in Secrets, CreateSecret(b, z) PROVE z # s
      BY <2>1 DEF CreateSecret
    <2>2. ~ UNCHANGED <<secret, writer>>
      OBVIOUS
    <2>3. PICK b \in Browsers, z \in Secrets :
            CreateSecret(b, z) \/ UpdateSecret(b, z) \/ DeleteSecret(b, z)
      BY <2>2 DEF AllNext, SettingsNext, allVars, settings, CreatePolicy, UpdateAzurePolicy,
                  UpdateAwsPolicy, UpdatePolicy
    <2>4. z = s
      BY <2>3 DEF CreateSecret, UpdateSecret, DeleteSecret, SettingsInv, SettingsTypeOK
    <2>5. Selects(b, s)
      BY <2>1, <2>3, <2>4 DEF UpdateSecret, DeleteSecret
    <2> QED
      BY <1>1, <2>5
  <1> QED
    BY SettingsInvHolds, <1>2, PTL DEF AllSpec, SecretsOwn

\* A user who is no Admin any more changes no policy once the token has run out.
THEOREM DemotedStop == AllSpec => DemotedAdminsStop
  <1> DEFINE Allowed ==
        \A p \in Policies : policy[p] # policy'[p] =>
          \E b \in Browsers :
            /\ access[b] # Nothing
            /\ LET t == access[b] IN
               t.id = 0 \/ user[t.id].role = "Admin" \/ since[t.id] <= t.age
  <1>1. IInv /\ [AllNext]_allVars => [Allowed]_allVars
    <2> SUFFICES ASSUME IInv, [AllNext]_allVars, NEW p \in Policies, policy[p] # policy'[p]
                 PROVE  \E b \in Browsers : Admins(b)
      <3>1. ASSUME NEW b \in Browsers, Admins(b), IInv
            PROVE  \/ access[b].id = 0
                   \/ user[access[b].id].role = "Admin"
                   \/ since[access[b].id] <= access[b].age
        BY <3>1 DEF Admins, IInv, DemotionBites
      <3> QED
        BY <3>1 DEF Admins
    <2>1. \A b \in Browsers, q \in Policies, v \in Values :
            CreatePolicy(b, q, v) \/ UpdatePolicy(b, q, v) => Admins(b)
      BY DEF CreatePolicy, UpdatePolicy
    <2>2. \A b \in Browsers, s \in Secrets :
            CreateSecret(b, s) \/ UpdateSecret(b, s) \/ DeleteSecret(b, s) => policy' = policy
      BY DEF CreateSecret, UpdateSecret, DeleteSecret
    <2>3. ~ UNCHANGED settings
      BY DEF settings
    <2> QED
      BY <2>1, <2>2, <2>3
         DEF AllNext, SettingsNext, allVars, UpdateAzurePolicy, UpdateAwsPolicy, Policies
  <1> QED
    BY SettingsInvHolds, <1>1, PTL DEF AllSpec, DemotedAdminsStop
=============================================================================
