------------------------- MODULE TerraformDirProofs -------------------------
(* What the provisioning DAGs leave in the rows is what exists, and why a   *)
(* run fails: proofs for any number of runs, requests and faults.           *)
EXTENDS TerraformDir, FiniteSetTheorems, TLAPS

Early(x) == pc[x] \in {"fetch", "dir", "key", "pub", "files"}

\* Some run for the request that the files describe is at one of these steps.
Owes(d, steps) == \E x \in Users(d) : request[x] = tfvars[d].req /\ pc[x] \in steps

\* Some run has yet to write the files, or never will get through, or has yet to
\* apply the files for the request they describe.  AZURE_db keeps tfvars, so there
\* only a run for the request they name counts as early.
Pending(d) ==
    \/ \E x \in Users(d) :
          \/ pc[x] = "failed"
          \/ Early(x) /\ (dag = "AZURE_db" => request[x] = tfvars[d].req)
    \/ Owes(d, {"init", "apply"})

\* Another terraform apply over v would change nothing.
Fresh(d, v) ==
    /\ v # None
    /\ v.req = tfvars[d].req
    /\ dag = "AZURE_vm" => v.stamp = pubFile[d]
    /\ dag = "AWS_st" => v.stamp = tfvars[d].suffix

\* What a run has got through, the directory shows.
Progress ==
    \A x \in Runs :
        /\ pc[x] \in {"key", "pub"} => dag \in Vm
        /\ pc[x] \in {"files", "init", "apply", "applying", "write", "update", "commit", "done"}
              /\ dag \in Vm => pubFile[Dir(x)] # None
        /\ pc[x] \in {"init", "apply", "applying", "write", "update", "commit", "done"}
              => tfvars[Dir(x)] # None
        /\ plan[x] # None <=> pc[x] = "applying"

\* Files, instances and states stay with the name they were made under.
Owned ==
    /\ \A d \in Dirs : tfvars[d] # None =>
          /\ DirOf(tfvars[d].req) = d
          /\ dag = "AWS_st" => tfvars[d].suffix \in Attempts
    /\ \A d \in Dirs : applied[d] # None => DirOf(applied[d].req) = d
    /\ \A x \in Runs : plan[x] # None => DirOf(plan[x].req) = Dir(x)
    /\ \A x \in Runs : state[x] # None => DirOf(state[x].req) = Dir(x)
    /\ \A r \in Requests : recorded[r] # None => DirOf(recorded[r].req) = DirOf(r)

\* One terraform apply at a time.
Alone ==
    \A x, y \in Runs : Dir(x) = Dir(y) /\ pc[x] = "applying" /\ pc[y] = "applying" => x = y

Base == TypeOK /\ Progress /\ Owned /\ Alone

\* When nothing is pending, the apply under way or the last one was of these
\* files, and only one for the request that they describe changes anything.
AppliedFollows(d) ==
    /\ Fresh(d, applied[d]) \/ Owes(d, {"applying"})
    /\ \A y \in Users(d) : pc[y] = "applying" =>
          /\ Fresh(d, plan[y])
          /\ request[y] # tfvars[d].req => plan[y] = applied[d]

\* The rows of that request have its state or will get it, and no run of it holds
\* another state but for an apply that is about to overtake it.
RecordFollows(d) ==
    LET r == tfvars[d].req IN
        \/ r \in overtaken
        \/ /\ \/ recorded[r] = applied[d]
              \/ Owes(d, {"applying", "write", "update", "commit"})
           /\ \/ Owes(d, {"applying"})
              \/ \A y \in Users(d) :
                    request[y] = r /\ pc[y] \in {"update", "commit"} => state[y] = applied[d]

\* The same of its pem.
PemFollows(d) ==
    LET r == tfvars[d].req IN
        dag \in Vm =>
            /\ \/ pem[r] = pemFile[d]
               \/ Owes(d, {"applying", "write", "update", "commit"})
            /\ \/ Owes(d, {"applying", "write", "update"})
               \/ \A y \in Users(d) :
                     request[y] = r /\ pc[y] = "commit" => pemText[y] = pemFile[d]

Follows(d) ==
    tfvars[d] # None /\ ~Pending(d) => AppliedFollows(d) /\ RecordFollows(d) /\ PemFollows(d)

\* Some run is about to make a key, or will not get to.
Keying(d) == \E x \in Users(d) : pc[x] \in {"key", "pub", "failed"}

\* The halves belong together, and an AWS machine has the key it was made with.
KeysMatch(d) ==
    crossed[d] \/
        /\ \A y \in Users(d) : pc[y] = "pub" => pemFile[d] = Attempt(y)
        /\ ~Keying(d) =>
              /\ pubFile[d] = pemFile[d]
              /\ dag = "AWS_vm" /\ ~rekeyed[d] =>
                    /\ applied[d] # None => applied[d].stamp = pemFile[d]
                    /\ \A y \in Users(d) : pc[y] = "applying" => plan[y].stamp = pemFile[d]

IInv == Base /\ \A d \in Dirs : Follows(d) /\ KeysMatch(d)

-----------------------------------------------------------------------------
(* The shape of a step.                                                     *)

\* A step that leaves the disk, the cloud and the rows alone.
Quiet(x, q) ==
    /\ UNCHANGED shared
    /\ \/ Forgets(x) /\ Running(x) /\ q \in {Restart(pc[x]), "failed"}
       \/ UNCHANGED local /\ pc[x] \in {"init", "apply"} /\ q \in {pc[x], "failed"}
       \/ UNCHANGED local /\ pc[x] = "fetch" /\ q = "dir"
       \/ UNCHANGED local /\ pc[x] = "dir" /\ q = IF dag \in Vm THEN "key" ELSE "files"
       \/ UNCHANGED local /\ pc[x] = "init" /\ q = "apply"

\* Run x moves to step q.
StepOf(x, q) ==
    /\ UNCHANGED <<dag, request>>
    /\ pc' = [pc EXCEPT ![x] = q]
    /\ \A y \in Runs : y # x => tries'[y] = tries[y]
    /\ \/ Quiet(x, q)
       \/ WritePem(x) /\ q = "pub" /\ tries' = tries
       \/ WritePub(x) /\ q \in {"files", "key", "failed"}
       \/ WriteFiles(x) /\ q \in {"init", "files", "failed"}
       \/ ApplyBegins(x) /\ q = "applying"
       \/ ApplyEnds(x) /\ q \in {"write", "apply", "failed"}
       \/ ReadState(x) /\ q = "update"
       \/ UpdateRows(x) /\ q = "commit"
       \/ CommitRows(x) /\ q \in {"done", "write", "failed"}

\* Every action guards on its step, so that a success goes where the chain says.
LEMMA ActMoves ==
    ASSUME NEW x \in Runs, TypeOK, Succeeds(x)
    PROVE  StepOf(x, After[pc[x]])
<1>1. /\ UNCHANGED <<dag, request>> /\ Act(x)
      /\ pc' = [pc EXCEPT ![x] = After[pc[x]]]
      /\ \A y \in Runs : y # x => tries'[y] = tries[y]
  BY DEF Succeeds, TypeOK
<1>2. CASE Fetch(x)
  <2>1. After["fetch"] = "dir"
    BY DEF After, Steps
  <2> QED BY <1>1, <1>2, <2>1 DEF Fetch, StepOf, Quiet
<1>3. CASE CreateDirectory(x)
  <2>1. After["dir"] = IF dag \in Vm THEN "key" ELSE "files"
    BY DEF After, Steps
  <2> QED BY <1>1, <1>3, <2>1 DEF CreateDirectory, StepOf, Quiet
<1>4. CASE WritePem(x)
  <2>1. pc[x] = "key"
    BY <1>4 DEF WritePem
  <2>2. After["key"] = "pub" /\ Restart("pub") = "key"
    BY DEF After, Steps, Restart
  <2>3. tries' = tries
    BY <2>1, <2>2 DEF Succeeds, TypeOK
  <2> QED BY <1>1, <1>4, <2>1, <2>2, <2>3 DEF StepOf
<1>5. CASE WritePub(x)
  <2>1. After["pub"] = "files"
    BY DEF After, Steps
  <2>2. pc[x] = "pub"
    BY <1>5 DEF WritePub
  <2> QED BY <1>1, <1>5, <2>1, <2>2 DEF StepOf
<1>6. CASE WriteFiles(x)
  <2>1. After["files"] = "init"
    BY DEF After, Steps
  <2>2. pc[x] = "files"
    BY <1>6 DEF WriteFiles
  <2> QED BY <1>1, <1>6, <2>1, <2>2 DEF StepOf
<1>7. CASE TerraformInit(x)
  <2>1. After["init"] = "apply"
    BY DEF After, Steps
  <2> QED BY <1>1, <1>7, <2>1 DEF TerraformInit, StepOf, Quiet
<1>8. CASE ApplyBegins(x)
  <2>1. After["apply"] = "applying"
    BY DEF After, Steps
  <2>2. pc[x] = "apply"
    BY <1>8 DEF ApplyBegins
  <2> QED BY <1>1, <1>8, <2>1, <2>2 DEF StepOf
<1>9. CASE ApplyEnds(x)
  <2>1. After["applying"] = "write"
    BY DEF After, Steps
  <2>2. pc[x] = "applying"
    BY <1>9 DEF ApplyEnds
  <2> QED BY <1>1, <1>9, <2>1, <2>2 DEF StepOf
<1>10. CASE ReadState(x)
  <2>1. After["write"] = "update"
    BY DEF After, Steps
  <2>2. pc[x] = "write"
    BY <1>10 DEF ReadState
  <2> QED BY <1>1, <1>10, <2>1, <2>2 DEF StepOf
<1>11. CASE UpdateRows(x)
  <2>1. After["update"] = "commit"
    BY DEF After, Steps
  <2>2. pc[x] = "update"
    BY <1>11 DEF UpdateRows
  <2> QED BY <1>1, <1>11, <2>1, <2>2 DEF StepOf
<1>12. CASE CommitRows(x)
  <2>1. After["commit"] = "done"
    BY DEF After, Steps
  <2>2. pc[x] = "commit"
    BY <1>12 DEF CommitRows
  <2> QED BY <1>1, <1>12, <2>1, <2>2 DEF StepOf
<1> QED BY <1>1, <1>2, <1>3, <1>4, <1>5, <1>6, <1>7, <1>8, <1>9, <1>10, <1>11, <1>12 DEF Act

\* The retry starts the task again or fails the run.
LEMMA RetryMoves ==
    ASSUME NEW x \in Runs, TypeOK, AttemptFails(x)
    PROVE  /\ \E q \in {Restart(pc[x]), "failed"} : pc' = [pc EXCEPT ![x] = q]
           /\ tries' \in [Runs -> {0, 1}]
           /\ \A y \in Runs : y # x => tries'[y] = tries[y]
BY DEF AttemptFails, TypeOK

LEMMA DyingMoves ==
    ASSUME NEW x \in Runs, TypeOK, Dies(x)
    PROVE  \E q : StepOf(x, q)
<1>1. /\ UNCHANGED <<dag, request>> /\ Running(x) /\ AttemptFails(x)
      /\ Forgets(x) \/ WritePub(x) \/ WriteFiles(x) \/ ApplyEnds(x) \/ CommitRows(x)
  BY DEF Dies
<1>2. PICK q \in {Restart(pc[x]), "failed"} : pc' = [pc EXCEPT ![x] = q]
  BY <1>1, RetryMoves
<1>3. \A y \in Runs : y # x => tries'[y] = tries[y]
  BY <1>1, RetryMoves
<1>4. CASE Forgets(x)
  BY <1>1, <1>2, <1>3, <1>4 DEF StepOf, Quiet, Forgets
<1>5. CASE WritePub(x)
  <2>1. q \in {"key", "failed"}
    BY <1>2, <1>5 DEF WritePub, Restart
  <2> QED BY <1>1, <1>2, <1>3, <1>5, <2>1 DEF StepOf
<1>6. CASE WriteFiles(x)
  <2>1. q \in {"files", "failed"}
    BY <1>2, <1>6 DEF WriteFiles, Restart
  <2> QED BY <1>1, <1>2, <1>3, <1>6, <2>1 DEF StepOf
<1>7. CASE ApplyEnds(x)
  <2>1. q \in {"apply", "failed"}
    BY <1>2, <1>7 DEF ApplyEnds, Restart
  <2> QED BY <1>1, <1>2, <1>3, <1>7, <2>1 DEF StepOf
<1>8. CASE CommitRows(x)
  <2>1. q \in {"write", "failed"}
    BY <1>2, <1>8 DEF CommitRows, Restart
  <2> QED BY <1>1, <1>2, <1>3, <1>8, <2>1 DEF StepOf
<1> QED BY <1>1, <1>4, <1>5, <1>6, <1>7, <1>8

LEMMA RefusalMoves ==
    ASSUME NEW x \in Runs, TypeOK, Refused(x)
    PROVE  \E q : StepOf(x, q)
<1>1. /\ UNCHANGED <<dag, request, shared, local>> /\ AttemptFails(x)
      /\ pc[x] \in {"init", "apply"}
  BY DEF Refused
<1>2. PICK q \in {Restart(pc[x]), "failed"} : pc' = [pc EXCEPT ![x] = q]
  BY <1>1, RetryMoves
<1>3. \A y \in Runs : y # x => tries'[y] = tries[y]
  BY <1>1, RetryMoves
<1>4. Restart(pc[x]) = pc[x]
  BY <1>1 DEF Restart
<1> QED BY <1>1, <1>2, <1>3, <1>4 DEF StepOf, Quiet

\* Every step is a step of this shape.
LEMMA StepShape ==
    ASSUME TypeOK, Next
    PROVE  \E x \in Runs : \E q : StepOf(x, q)
<1>1. PICK x \in Runs : Succeeds(x) \/ Dies(x) \/ Refused(x)
  BY DEF Next
<1> QED BY <1>1, ActMoves, DyingMoves, RefusalMoves

\* A directory of a request is a directory.
LEMMA DirsOfRequests ==
    /\ \A r \in Requests : DirOf(r) \in Dirs
    /\ TypeOK => \A x \in Runs : request[x] \in Requests /\ Dir(x) \in Dirs
BY DEF DirOf, Dir, Dirs, RepositoryDir, ResourcesDir, TypeOK

\* What no step changes, and what a step of x leaves of the other runs.
LEMMA Frame ==
    ASSUME NEW x \in Runs, NEW q, TypeOK, StepOf(x, q)
    PROVE  /\ UNCHANGED <<dag, request>>
           /\ \A r : DirOf(r)' = DirOf(r)
           /\ \A y : Dir(y)' = Dir(y)
           /\ \A d : Users(d)' = Users(d)
           /\ pc'[x] = q
           /\ \A y \in Runs : y # x =>
                 /\ pc'[y] = pc[y] /\ tries'[y] = tries[y]
                 /\ plan'[y] = plan[y] /\ state'[y] = state[y] /\ pemText'[y] = pemText[y]
<1>1. UNCHANGED <<dag, request>> /\ pc' = [pc EXCEPT ![x] = q]
  BY DEF StepOf
<1>2. /\ \A r : DirOf(r)' = DirOf(r)
      /\ \A y : Dir(y)' = Dir(y)
      /\ \A d : Users(d)' = Users(d)
  BY <1>1 DEF DirOf, Dir, Users
<1>3. \A y \in Runs : y # x =>
         plan'[y] = plan[y] /\ state'[y] = state[y] /\ pemText'[y] = pemText[y]
  BY DEF StepOf, Quiet, Forgets, WritePem, WritePub, WriteFiles, ApplyBegins, ApplyEnds,
         ReadState, UpdateRows, CommitRows, local, TypeOK
<1>4. \A y \in Runs : y # x => pc'[y] = pc[y] /\ tries'[y] = tries[y]
  BY <1>1 DEF StepOf, TypeOK
<1>5. pc'[x] = q
  BY <1>1 DEF TypeOK
<1> QED BY <1>1, <1>2, <1>3, <1>4, <1>5

\* What a write of the files leaves: the run's own request, or, for AZURE_db,
\* what was there.
LEMMA FilesWritten ==
    ASSUME NEW x \in Runs, TypeOK, WriteFiles(x)
    PROVE  /\ mains' \in [Dirs -> SUBSET (Attempts \cup {Unstamped})]
           /\ \/ \E s \in Attempts \cup {None} :
                    /\ dag = "AWS_st" => s \in Attempts
                    /\ dag = "AZURE_db" => tfvars[Dir(x)] = None
                    /\ tfvars' = [tfvars EXCEPT ![Dir(x)] =
                                     [req |-> request[x], suffix |-> s]]
              \/ dag = "AZURE_db" /\ tfvars[Dir(x)] # None /\ tfvars' = tfvars
<1>1. Attempt(x) \in Attempts
  BY DEF Attempt, Attempts, TypeOK
<1>2. MainTf(x) => mains' \in [Dirs -> SUBSET (Attempts \cup {Unstamped})]
  BY DirsOfRequests DEF MainTf, TypeOK
<1>3. StampedMain(x) => mains' \in [Dirs -> SUBSET (Attempts \cup {Unstamped})]
  BY <1>1, DirsOfRequests DEF StampedMain, TypeOK
<1>4. ASSUME NEW s, Describe(x, s)
      PROVE  tfvars' = [tfvars EXCEPT ![Dir(x)] = [req |-> request[x], suffix |-> s]]
  BY <1>4 DEF Describe
<1> QED
  BY <1>1, <1>2, <1>3, <1>4
  DEF WriteFiles, WriteAwsVm, WriteAwsDb, WriteAwsSt, WriteAzureVm, WriteAzureDb, WriteAzureSt

\* What an apply that begins will leave: instances of the request in tfvars, at
\* the directory's fixed point.
LEMMA ApplyBuilds ==
    ASSUME NEW x \in Runs, Base, ApplyBegins(x)
    PROVE  /\ tfvars[Dir(x)] # None
           /\ Built(x) \in Instances
           /\ Fresh(Dir(x), Built(x))
           /\ Fresh(Dir(x), applied[Dir(x)]) => Built(x) = applied[Dir(x)]
           /\ dag = "AWS_vm" => \/ Built(x).stamp = pubFile[Dir(x)]
                                \/ /\ applied[Dir(x)] # None
                                   /\ Built(x).stamp = applied[Dir(x)].stamp
<1> DEFINE d == Dir(x)
           kept == applied[d] # None /\ applied[d].req = tfvars[d].req
<1>1. d \in Dirs /\ pc[x] = "apply" /\ tfvars[d] # None
  BY DirsOfRequests DEF Base, ApplyBegins, Progress
<1>2. /\ tfvars[d] \in TfVars
      /\ dag = "AWS_st" => tfvars[d].suffix \in Attempts
      /\ dag \in Vm => pubFile[d] \in Attempts
      /\ applied[d] # None => applied[d] \in Instances
      /\ Attempt(x) \in Attempts
      /\ \A v \in Instances : v # None
  BY <1>1, TerraformAssumption DEF Base, TypeOK, Progress, Owned, Attempt, Attempts
<1>3. CASE dag = "AZURE_vm"
  <2>1. Built(x) = [req |-> tfvars[d].req, stamp |-> pubFile[d]]
    BY <1>3 DEF Built
  <2> QED BY <1>1, <1>2, <1>3, <2>1 DEF Instances, TfVars, Fresh, Vm
<1>4. CASE dag = "AWS_st"
  <2>1. Built(x) = [req |-> tfvars[d].req, stamp |-> tfvars[d].suffix]
    BY <1>4 DEF Built
  <2> QED BY <1>1, <1>2, <1>4, <2>1 DEF Instances, TfVars, Fresh
<1>5. CASE dag \notin {"AZURE_vm", "AWS_st"} /\ kept
  <2>1. Built(x) = [req |-> tfvars[d].req, stamp |-> applied[d].stamp]
    BY <1>5 DEF Built
  <2> QED BY <1>1, <1>2, <1>5, <2>1 DEF Instances, TfVars, Fresh
<1>6. CASE dag = "AWS_vm" /\ ~kept
  <2>1. Built(x) = [req |-> tfvars[d].req, stamp |-> pubFile[d]]
    BY <1>6 DEF Built
  <2> QED BY <1>1, <1>2, <1>6, <2>1 DEF Instances, TfVars, Fresh, Vm
<1>7. CASE dag \notin {"AZURE_vm", "AWS_st", "AWS_vm"} /\ ~kept
  <2>1. Built(x) = [req |-> tfvars[d].req, stamp |-> Attempt(x)]
    BY <1>7 DEF Built
  <2> QED BY <1>1, <1>2, <1>7, <2>1 DEF Instances, TfVars, Fresh
<1> QED BY <1>3, <1>4, <1>5, <1>6, <1>7

\* A step keeps the types of the counters.
LEMMA CountersTyped ==
    ASSUME TypeOK, Next
    PROVE  tries' \in [Runs -> {0, 1}] /\ faults' \in 0..MaxFaults
<1>1. PICK x \in Runs : Succeeds(x) \/ Dies(x) \/ Refused(x)
  BY DEF Next
<1>2. CASE Succeeds(x)
  BY <1>2 DEF Succeeds, TypeOK
<1>3. CASE Dies(x)
  BY <1>3, RetryMoves, TerraformAssumption DEF Dies, TypeOK
<1>4. CASE Refused(x)
  BY <1>4, RetryMoves DEF Refused, TypeOK
<1> QED BY <1>1, <1>2, <1>3, <1>4

\* Where a step comes from and leads to.
LEMMA StepOrder ==
    ASSUME NEW x \in Runs, NEW q, TypeOK, StepOf(x, q)
    PROVE  /\ q \in Steps
           /\ q = "pub" => WritePem(x)
           /\ q = "applying" => ApplyBegins(x)
           /\ q = "done" => CommitRows(x)
           /\ q = "key" => pc[x] \in {"dir", "key", "pub"} /\ (pc[x] = "dir" => dag \in Vm)
           /\ q = "files" => pc[x] \in {"dir", "pub", "files"}
                             /\ (pc[x] = "dir" => dag \notin Vm) /\ (pc[x] = "pub" => WritePub(x))
           /\ q = "init" => \/ pc[x] = "files" /\ WriteFiles(x)
                            \/ pc[x] = "init"
           /\ q = "apply" => pc[x] \in {"init", "apply", "applying"}
           /\ q = "write" => pc[x] \in {"write", "update", "commit"} \/ ApplyEnds(x)
           /\ q = "update" => ReadState(x)
           /\ q = "commit" => UpdateRows(x)
           /\ pc[x] # "failed"
<1>1. pc[x] \in Steps
  BY DEF TypeOK
<1>2. CASE Quiet(x, q)
  BY <1>1, <1>2 DEF Quiet, Restart, Steps, Running
<1>3. CASE WriteFiles(x) /\ q \in {"init", "files", "failed"}
  BY <1>3 DEF WriteFiles, Steps
<1>4. CASE WritePub(x) /\ q \in {"files", "key", "failed"}
  BY <1>4 DEF WritePub, Steps
<1>5. CASE ApplyEnds(x) /\ q \in {"write", "apply", "failed"}
  BY <1>5 DEF ApplyEnds, Steps
<1>6. CASE CommitRows(x) /\ q \in {"done", "write", "failed"}
  BY <1>6 DEF CommitRows, Steps
<1> QED
  BY <1>2, <1>3, <1>4, <1>5, <1>6
  DEF StepOf, WritePem, ApplyBegins, ReadState, UpdateRows, Steps

\* What a step leaves on the disk, in the cloud and in the rows has its types.
LEMMA SharedTyped ==
    ASSUME NEW x \in Runs, NEW q, Base, StepOf(x, q)
    PROVE  /\ tfvars' \in [Dirs -> TfVars \cup {None}]
           /\ pemFile' \in [Dirs -> Attempts \cup {None}]
           /\ pubFile' \in [Dirs -> Attempts \cup {None}]
           /\ mains' \in [Dirs -> SUBSET (Attempts \cup {Unstamped})]
           /\ applied' \in [Dirs -> Instances \cup {None}]
           /\ recorded' \in [Requests -> Instances \cup {None}]
           /\ pem' \in [Requests -> Attempts \cup {None}]
           /\ plan' \in [Runs -> Instances \cup {None}]
           /\ state' \in [Runs -> Instances \cup {None}]
           /\ pemText' \in [Runs -> Attempts \cup {None}]
           /\ rekeyed' \in [Dirs -> BOOLEAN]
           /\ crossed' \in [Dirs -> BOOLEAN]
           /\ overtaken' \in SUBSET Requests
<1> DEFINE d == Dir(x)
<1>1. TypeOK /\ d \in Dirs /\ request[x] \in Requests /\ Attempt(x) \in Attempts
  BY DirsOfRequests DEF Base, TypeOK, Attempt, Attempts
<1> USE <1>1 DEF TypeOK
<1>2. CASE Quiet(x, q)
  BY <1>2 DEF Quiet, Forgets, shared, keys, files, rows, history, local
<1>3. CASE WritePem(x)
  <2>1. rekeyed' \in [Dirs -> BOOLEAN]
    BY <1>3 DEF WritePem, Rekeys
  <2>2. crossed' \in [Dirs -> BOOLEAN]
    BY <1>3 DEF WritePem
  <2> QED BY <1>3, <2>1, <2>2 DEF WritePem, files, rows, local
<1>4. CASE WritePub(x)
  <2>1. rekeyed' \in [Dirs -> BOOLEAN]
    BY <1>4 DEF WritePub, Rekeys
  <2> QED BY <1>4, <2>1 DEF WritePub, files, rows, local
<1>5. CASE WriteFiles(x)
  <2>1. UNCHANGED <<keys, applied, rows, history, local>>
    BY <1>5 DEF WriteFiles
  <2>2. tfvars' \in [Dirs -> TfVars \cup {None}]
    <3>1. CASE tfvars' = tfvars
      BY <3>1
    <3>2. CASE \E s \in Attempts \cup {None} :
                  tfvars' = [tfvars EXCEPT ![d] = [req |-> request[x], suffix |-> s]]
      BY <3>2 DEF TfVars
    <3> QED BY <1>5, <3>1, <3>2, FilesWritten
  <2> QED BY <1>5, <2>1, <2>2, FilesWritten DEF keys, rows, history, local
<1>6. CASE ApplyBegins(x)
  <2>1. Built(x) \in Instances
    BY <1>6, ApplyBuilds
  <2> QED BY <1>6, <2>1 DEF ApplyBegins, shared, keys, files, rows, history
<1>7. CASE ApplyEnds(x)
  <2>1. overtaken' \in SUBSET Requests
    BY <1>7 DEF ApplyEnds
  <2> QED BY <1>7, <2>1 DEF ApplyEnds, keys, files, rows
<1>8. CASE ReadState(x)
  BY <1>8 DEF ReadState, shared, keys, files, rows, history
<1>9. CASE UpdateRows(x)
  BY <1>9 DEF UpdateRows, shared, keys, files, rows, history
<1>10. CASE CommitRows(x)
  BY <1>10 DEF CommitRows, keys, files, history
<1> QED BY <1>2, <1>3, <1>4, <1>5, <1>6, <1>7, <1>8, <1>9, <1>10 DEF StepOf

\* What a step of x does to the tfvars, the public keys and the plan of x.
LEMMA DiskMoves ==
    ASSUME NEW x \in Runs, NEW q, Base, StepOf(x, q)
    PROVE  /\ \/ tfvars' = tfvars
              \/ /\ WriteFiles(x)
                 /\ tfvars'[Dir(x)] \in TfVars
                 /\ tfvars'[Dir(x)].req = request[x]
                 /\ dag = "AWS_st" => tfvars'[Dir(x)].suffix \in Attempts
                 /\ \A d \in Dirs : d # Dir(x) => tfvars'[d] = tfvars[d]
           /\ WriteFiles(x) => tfvars'[Dir(x)] # None
           /\ \/ pubFile' = pubFile
              \/ WritePub(x) /\ pubFile' = [pubFile EXCEPT ![Dir(x)] = Attempt(x)]
           /\ \/ applied' = applied
              \/ ApplyEnds(x) /\ applied' = [applied EXCEPT ![Dir(x)] = plan[x]]
           /\ IF q = "applying" THEN ApplyBegins(x) /\ plan'[x] = Built(x) ELSE plan'[x] = None
           /\ state'[x] \in {state[x], applied[Dir(x)], None}
           /\ \/ recorded' = recorded
              \/ recorded' = [recorded EXCEPT ![request[x]] = state[x]]
<1>1. /\ TypeOK /\ Dir(x) \in Dirs /\ request[x] \in Requests
      /\ pc[x] # "applying" => plan[x] = None
  BY DirsOfRequests DEF Base, TypeOK, Progress
<1> USE <1>1 DEF TypeOK
<1>2. WriteFiles(x) =>
         \/ dag = "AZURE_db" /\ tfvars[Dir(x)] # None /\ tfvars' = tfvars
         \/ /\ tfvars'[Dir(x)] \in TfVars
            /\ tfvars'[Dir(x)].req = request[x]
            /\ dag = "AWS_st" => tfvars'[Dir(x)].suffix \in Attempts
            /\ \A d \in Dirs : d # Dir(x) => tfvars'[d] = tfvars[d]
  <2>1. ASSUME NEW s \in Attempts \cup {None}, dag = "AWS_st" => s \in Attempts,
               tfvars' = [tfvars EXCEPT ![Dir(x)] = [req |-> request[x], suffix |-> s]]
        PROVE  /\ tfvars'[Dir(x)] \in TfVars
               /\ tfvars'[Dir(x)].req = request[x]
               /\ dag = "AWS_st" => tfvars'[Dir(x)].suffix \in Attempts
               /\ \A d \in Dirs : d # Dir(x) => tfvars'[d] = tfvars[d]
    <3>1. tfvars'[Dir(x)] = [req |-> request[x], suffix |-> s]
      BY <2>1
    <3> QED BY <2>1, <3>1 DEF TfVars
  <2> QED BY <2>1, FilesWritten
<1>3. WriteFiles(x) => tfvars'[Dir(x)] # None
  BY <1>2, TerraformAssumption
<1>4. CASE Quiet(x, q)
  <2>1. UNCHANGED shared /\ q # "applying"
    BY <1>4 DEF Quiet, Restart, Running, Steps
  <2>2. plan'[x] = None /\ state'[x] \in {state[x], None}
    BY <1>4 DEF Quiet, Forgets, local
  <2> QED BY <1>3, <2>1, <2>2 DEF shared, keys, files, rows
<1>5. CASE WritePem(x) /\ q = "pub"
  BY <1>3, <1>5 DEF WritePem, files, rows, local
<1>6. CASE WritePub(x) /\ q \in {"files", "key", "failed"}
  BY <1>3, <1>6 DEF WritePub, files, rows, local
<1>7. CASE WriteFiles(x) /\ q \in {"init", "files", "failed"}
  BY <1>2, <1>3, <1>7 DEF WriteFiles, keys, rows, local
<1>8. CASE ApplyBegins(x) /\ q = "applying"
  BY <1>3, <1>8 DEF ApplyBegins, shared, keys, files, rows
<1>9. CASE ApplyEnds(x) /\ q \in {"write", "apply", "failed"}
  BY <1>3, <1>9 DEF ApplyEnds, keys, files, rows
<1>10. CASE ReadState(x) /\ q = "update"
  BY <1>3, <1>10 DEF ReadState, shared, keys, files, rows
<1>11. CASE UpdateRows(x) /\ q = "commit"
  BY <1>3, <1>11 DEF UpdateRows, shared, keys, files, rows
<1>12. CASE CommitRows(x) /\ q \in {"done", "write", "failed"}
  BY <1>3, <1>12 DEF CommitRows, keys, files
<1> QED BY <1>4, <1>5, <1>6, <1>7, <1>8, <1>9, <1>10, <1>11, <1>12 DEF StepOf

\* A step keeps types, the directory behind the runs, its owners and its lock.
LEMMA BaseStep ==
    ASSUME Base, Next
    PROVE  Base'
<1>1. TypeOK /\ Progress /\ Owned /\ Alone
  BY DEF Base
<1>2. PICK x \in Runs : \E q : StepOf(x, q)
  BY <1>1, StepShape
<1>3. PICK q : StepOf(x, q)
  BY <1>2
<1>a. /\ UNCHANGED <<dag, request>>
      /\ \A r : DirOf(r)' = DirOf(r)
      /\ \A y : Dir(y)' = Dir(y)
      /\ pc' = [pc EXCEPT ![x] = q] /\ q \in Steps
      /\ \A y \in Runs : Dir(y) \in Dirs
      /\ request[x] \in Requests
  BY <1>1, <1>3, Frame, StepOrder, DirsOfRequests DEF StepOf
<1>b. /\ Dir(x) = DirOf(request[x])
      /\ Attempt(x) \in Attempts /\ Attempt(x) # None
  BY <1>1, TerraformAssumption DEF Dir, TypeOK, Attempt, Attempts
<1> DEFINE d == Dir(x)
<1>4. /\ UNCHANGED <<dag, request>>
      /\ \A r : DirOf(r)' = DirOf(r)
      /\ \A y : Dir(y)' = Dir(y)
      /\ pc' = [pc EXCEPT ![x] = q] /\ q \in Steps
      /\ d \in Dirs /\ request[x] \in Requests /\ d = DirOf(request[x])
      /\ \A y \in Runs : Dir(y) \in Dirs
      /\ Attempt(x) \in Attempts /\ Attempt(x) # None
  BY <1>a, <1>b
<1>5. TypeOK'
  BY <1>1, <1>3, <1>4, CountersTyped, SharedTyped DEF TypeOK
<1>6. Progress'
  <2>1. SUFFICES ASSUME NEW y \in Runs
        PROVE  /\ pc'[y] \in {"key", "pub"} => dag \in Vm
               /\ pc'[y] \in {"files", "init", "apply", "applying", "write", "update",
                              "commit", "done"} /\ dag \in Vm => pubFile'[Dir(y)] # None
               /\ pc'[y] \in {"init", "apply", "applying", "write", "update", "commit", "done"}
                     => tfvars'[Dir(y)] # None
               /\ plan'[y] # None <=> pc'[y] = "applying"
    BY <1>4 DEF Progress
  <2>2. pubFile[Dir(y)] # None => pubFile'[Dir(y)] # None
    BY <1>1, <1>3, <1>4, DiskMoves DEF TypeOK
  <2>3. tfvars[Dir(y)] # None => tfvars'[Dir(y)] # None
    BY <1>1, <1>3, <1>4, DiskMoves, TerraformAssumption DEF TypeOK
  <2>4. CASE y # x
    BY <1>1, <1>3, <2>2, <2>3, <2>4, Frame DEF Progress
  <2>5. CASE y = x
    <3>1. pc'[x] = q
      BY <1>1, <1>3, Frame
    <3>2. q \in {"key", "pub"} => dag \in Vm
      BY <1>1, <1>3, StepOrder DEF Progress, WritePem
    <3>3. q \in {"files", "init", "apply", "applying", "write", "update", "commit", "done"}
             /\ dag \in Vm => pubFile'[d] # None
      <4>1. CASE WritePub(x)
        BY <1>1, <1>4, <4>1 DEF WritePub, TypeOK
      <4>2. CASE ~WritePub(x)
        <5>1. SUFFICES ASSUME q \in {"files", "init", "apply", "applying", "write", "update",
                                     "commit", "done"}, dag \in Vm
              PROVE  pc[x] \in {"files", "init", "apply", "applying", "write", "update",
                                "commit", "done"}
          BY <1>1, <2>2, <2>5 DEF Progress
        <5> QED BY <1>1, <1>3, <4>2, <5>1, StepOrder
                DEF ApplyBegins, ApplyEnds, ReadState, UpdateRows, CommitRows
      <4> QED BY <4>1, <4>2
    <3>4. q \in {"init", "apply", "applying", "write", "update", "commit", "done"}
             => tfvars'[d] # None
      <4>1. CASE WriteFiles(x)
        BY <1>3, <4>1, DiskMoves
      <4>2. CASE ~WriteFiles(x)
        <5>1. SUFFICES ASSUME q \in {"init", "apply", "applying", "write", "update",
                                     "commit", "done"}
              PROVE  pc[x] \in {"init", "apply", "applying", "write", "update", "commit", "done"}
          BY <1>1, <2>3, <2>5 DEF Progress
        <5> QED BY <1>1, <1>3, <4>2, <5>1, StepOrder
                DEF ApplyBegins, ApplyEnds, ReadState, UpdateRows, CommitRows
      <4> QED BY <4>1, <4>2
    <3>5. plan'[x] # None <=> q = "applying"
      <4>1. ApplyBegins(x) => Built(x) # None
        BY <1>1, ApplyBuilds, TerraformAssumption DEF Base
      <4> QED BY <1>3, <4>1, DiskMoves
    <3> QED BY <2>5, <3>1, <3>2, <3>3, <3>4, <3>5
  <2> QED BY <2>4, <2>5
<1>7. Owned'
  <2>1. \A e \in Dirs : tfvars'[e] # None =>
           /\ DirOf(tfvars'[e].req) = e
           /\ dag = "AWS_st" => tfvars'[e].suffix \in Attempts
    BY <1>1, <1>3, <1>4, DiskMoves DEF Owned
  <2>2. \A e \in Dirs : applied'[e] # None => DirOf(applied'[e].req) = e
    BY <1>1, <1>3, <1>4, DiskMoves DEF Owned, TypeOK
  <2>3. plan'[x] # None => DirOf(plan'[x].req) = d
    <3>1. ApplyBegins(x) => Built(x) # None /\ Built(x).req = tfvars[d].req /\ tfvars[d] # None
      BY <1>1, ApplyBuilds DEF Base, Fresh
    <3> QED BY <1>1, <1>3, <1>4, <3>1, DiskMoves DEF Owned
  <2>4. state'[x] # None => DirOf(state'[x].req) = d
    BY <1>1, <1>3, <1>4, DiskMoves DEF Owned
  <2>5. \A r \in Requests : recorded'[r] # None => DirOf(recorded'[r].req) = DirOf(r)
    BY <1>1, <1>3, <1>4, DiskMoves DEF Owned, TypeOK
  <2>6. \A y \in Runs : y # x => plan'[y] = plan[y] /\ state'[y] = state[y]
    BY <1>1, <1>3, Frame
  <2> QED BY <1>1, <1>4, <2>1, <2>2, <2>3, <2>4, <2>5, <2>6 DEF Owned
<1>8. Alone'
  <2>1. q = "applying" => \A y \in Users(d) : pc[y] # "applying"
    BY <1>1, <1>3, StepOrder DEF ApplyBegins, Locked
  <2> QED BY <1>1, <1>3, <1>4, <2>1, Frame DEF Alone, Users
<1> QED BY <1>5, <1>6, <1>7, <1>8 DEF Base

-----------------------------------------------------------------------------
(* A directory that the step is not about.                                  *)

\* What a directory and the rows of its requests hold.
Holds(d) ==
    <<tfvars[d], pemFile[d], pubFile[d], applied[d], rekeyed[d], crossed[d]>>

LEMMA OtherDirs ==
    ASSUME NEW x \in Runs, NEW q, Base, StepOf(x, q), NEW d \in Dirs, Dir(x) # d
    PROVE  /\ Holds(d)' = Holds(d)
           /\ \A r \in Requests : DirOf(r) = d =>
                 /\ recorded'[r] = recorded[r] /\ pem'[r] = pem[r]
                 /\ r \in overtaken => r \in overtaken'
<1>1. TypeOK /\ Dir(x) \in Dirs /\ request[x] \in Requests /\ DirOf(request[x]) # d
  BY DirsOfRequests DEF Base, TypeOK, Dir
<1> USE <1>1 DEF TypeOK, Holds
<1>2. CASE Quiet(x, q)
  BY <1>2 DEF Quiet, shared, keys, files, rows, history
<1>3. CASE WritePem(x)
  BY <1>3 DEF WritePem, Rekeys, files, rows
<1>4. CASE WritePub(x)
  BY <1>4 DEF WritePub, Rekeys, files, rows
<1>5. CASE WriteFiles(x)
  <2>1. tfvars'[d] = tfvars[d]
    BY DiskMoves
  <2> QED BY <1>5, <2>1 DEF WriteFiles, keys, rows, history
<1>6. CASE ApplyBegins(x)
  BY <1>6 DEF ApplyBegins, shared, keys, files, rows, history
<1>7. CASE ApplyEnds(x)
  BY <1>7 DEF ApplyEnds, keys, files, rows
<1>8. CASE ReadState(x)
  BY <1>8 DEF ReadState, shared, keys, files, rows, history
<1>9. CASE UpdateRows(x)
  BY <1>9 DEF UpdateRows, shared, keys, files, rows, history
<1>10. CASE CommitRows(x)
  BY <1>10 DEF CommitRows, keys, files, history
<1> QED BY <1>2, <1>3, <1>4, <1>5, <1>6, <1>7, <1>8, <1>9, <1>10 DEF StepOf

LEMMA FollowsElsewhere ==
    ASSUME NEW x \in Runs, NEW q, Base, StepOf(x, q), NEW d \in Dirs, Dir(x) # d,
           Follows(d), KeysMatch(d)
    PROVE  Follows(d)' /\ KeysMatch(d)'
<1>1. /\ tfvars'[d] = tfvars[d] /\ pemFile'[d] = pemFile[d] /\ pubFile'[d] = pubFile[d]
      /\ applied'[d] = applied[d] /\ rekeyed'[d] = rekeyed[d] /\ crossed'[d] = crossed[d]
      /\ dag' = dag /\ request' = request
  BY OtherDirs, Frame DEF Holds, Base
<1>2. /\ Users(d)' = Users(d)
      /\ \A y \in Users(d) :
            /\ y \in Runs
            /\ pc'[y] = pc[y] /\ tries'[y] = tries[y]
            /\ plan'[y] = plan[y] /\ state'[y] = state[y] /\ pemText'[y] = pemText[y]
  <2>1. Users(d)' = Users(d)
    BY Frame DEF Base
  <2>2. \A y \in Users(d) : y \in Runs /\ y # x
    BY DEF Users
  <2> QED BY <2>1, <2>2, Frame DEF Base
<1>3. tfvars[d] # None =>
         LET r == tfvars[d].req IN
            /\ recorded'[r] = recorded[r] /\ pem'[r] = pem[r]
            /\ r \in overtaken => r \in overtaken'
  BY OtherDirs DEF Base, Owned, TypeOK, TfVars
<1>4. /\ Pending(d)' <=> Pending(d)
      /\ \A S : Owes(d, S)' <=> Owes(d, S)
      /\ Keying(d)' <=> Keying(d)
      /\ \A v : Fresh(d, v) => Fresh(d, v)'
  BY <1>1, <1>2 DEF Pending, Owes, Keying, Fresh, Early
<1>5. Follows(d)'
  <2> SUFFICES ASSUME tfvars[d] # None, ~Pending(d)
               PROVE  AppliedFollows(d)' /\ RecordFollows(d)' /\ PemFollows(d)'
    BY <1>1, <1>4 DEF Follows
  <2>1. AppliedFollows(d) /\ RecordFollows(d) /\ PemFollows(d)
    BY DEF Follows
  <2>2. AppliedFollows(d)'
    <3>1. Fresh(d, applied[d]) => Fresh(d, applied[d])'
      BY <1>1 DEF Fresh
    <3>2. \A y \in Users(d) : Fresh(d, plan[y]) => Fresh(d, plan[y])'
      BY <1>1, <1>2 DEF Fresh
    <3> QED BY <1>1, <1>2, <1>4, <2>1, <3>1, <3>2 DEF AppliedFollows
  <2>3. RecordFollows(d)'
    BY <1>1, <1>2, <1>3, <1>4, <2>1 DEF RecordFollows
  <2>4. PemFollows(d)'
    BY <1>1, <1>2, <1>3, <1>4, <2>1 DEF PemFollows
  <2> QED BY <2>2, <2>3, <2>4
<1>6. KeysMatch(d)'
  BY <1>1, <1>2, <1>4 DEF KeysMatch, Attempt
<1> QED BY <1>5, <1>6

-----------------------------------------------------------------------------
(* The directory that it is about.                                          *)

\* What is pending stays pending until an apply for the request described begins.
LEMMA PendingStays ==
    ASSUME NEW x \in Runs, NEW q, Base, StepOf(x, q), NEW d \in Dirs, Dir(x) = d,
           tfvars' = tfvars \/ tfvars[d] = tfvars'[d],
           Pending(d), ~Pending(d)'
    PROVE  ApplyBegins(x) /\ q = "applying" /\ request[x] = tfvars[d].req
<1>1. /\ tfvars'[d] = tfvars[d] /\ dag' = dag /\ request' = request /\ Users(d)' = Users(d)
      /\ pc'[x] = q /\ \A y \in Runs : y # x => pc'[y] = pc[y]
  BY Frame DEF Base
<1>2. PICK y \in Users(d) :
         \/ pc[y] = "failed"
         \/ Early(y) /\ (dag = "AZURE_db" => request[y] = tfvars[d].req)
         \/ request[y] = tfvars[d].req /\ pc[y] \in {"init", "apply"}
  BY DEF Pending, Owes
<1>3. y \in Runs /\ y = x
  BY <1>1, <1>2 DEF Pending, Owes, Early, Users
<1>4. pc[x] # "failed" /\ q # "failed"
  BY <1>1, <1>2, <1>3, StepOrder DEF Pending, Base
<1>5. CASE Early(x) /\ (dag = "AZURE_db" => request[x] = tfvars[d].req)
  <2>1. q = "init"
    <3>1. q \in {"dir", "key", "pub", "files", "init", "fetch"}
      BY <1>4, <1>5, StepOrder
      DEF Base, Early, Steps, ApplyBegins, CommitRows, ApplyEnds, ReadState, UpdateRows
    <3> QED BY <1>1, <1>3, <1>5, <3>1 DEF Pending, Early
  <2>2. WriteFiles(x)
    BY <1>5, <2>1, StepOrder DEF Base, Early
  <2>3. tfvars[d].req = request[x]
    <3>1. CASE dag = "AZURE_db"
      BY <1>5, <3>1
    <3>2. CASE dag # "AZURE_db"
      <4>1. PICK s \in Attempts \cup {None} :
                tfvars' = [tfvars EXCEPT ![d] = [req |-> request[x], suffix |-> s]]
        BY <2>2, <3>2, FilesWritten DEF Base
      <4> QED BY <1>1, <4>1 DEF Base, TypeOK
    <3> QED BY <3>1, <3>2
  <2> QED BY <1>1, <1>2, <1>3, <2>1, <2>3 DEF Pending, Owes
<1>6. CASE request[x] = tfvars[d].req /\ pc[x] \in {"init", "apply"}
  <2>1. q \notin {"init", "apply"}
    BY <1>1, <1>2, <1>3, <1>6 DEF Pending, Owes
  <2>2. q = "applying"
    <3>1. q \notin {"fetch", "dir", "key", "pub", "files", "write", "update", "commit", "done"}
      BY <1>6, StepOrder
      DEF Base, StepOf, Quiet, Restart, WritePem, WritePub, WriteFiles, ApplyEnds, ReadState,
          UpdateRows, CommitRows
    <3> QED BY <1>4, <2>1, <3>1, StepOrder DEF Base, Steps
  <2> QED BY <1>6, <2>2, StepOrder DEF Base
<1> QED BY <1>2, <1>3, <1>4, <1>5, <1>6

\* New files: whoever wrote them owes the rest, or they are the files that were there.
LEMMA FollowsFiles ==
    ASSUME NEW x \in Runs, NEW q, Base, StepOf(x, q), NEW d \in Dirs, Dir(x) = d, Follows(d),
           WriteFiles(x), q \in {"init", "files", "failed"}
    PROVE  Follows(d)'
<1>1. /\ dag' = dag /\ request' = request /\ Users(d)' = Users(d)
      /\ pc'[x] = q /\ \A y \in Runs : y # x => pc'[y] = pc[y]
      /\ x \in Users(d) /\ pc[x] = "files"
      /\ UNCHANGED <<pemFile, pubFile, applied, recorded, pem, overtaken, plan, state, pemText>>
  BY Frame DEF Base, Users, WriteFiles, keys, rows, history, local
<1>2. CASE tfvars'[d].req = request[x]
  <2>1. Pending(d)'
    BY <1>1, <1>2 DEF Pending, Owes, Early
  <2> QED BY <2>1 DEF Follows
<1>3. CASE tfvars'[d].req # request[x]
  <2>1. dag = "AZURE_db" /\ tfvars[d] # None /\ tfvars' = tfvars
    <3>1. \/ \E s : tfvars' = [tfvars EXCEPT ![d] = [req |-> request[x], suffix |-> s]]
          \/ dag = "AZURE_db" /\ tfvars[d] # None /\ tfvars' = tfvars
      BY FilesWritten DEF Base
    <3>2. (\E s : tfvars' = [tfvars EXCEPT ![d] = [req |-> request[x], suffix |-> s]])
            => tfvars'[d].req = request[x]
      BY DEF Base, TypeOK
    <3> QED BY <1>3, <3>1, <3>2
  <2> SUFFICES ASSUME ~Pending(d)'
               PROVE  AppliedFollows(d)' /\ RecordFollows(d)' /\ PemFollows(d)'
    BY DEF Follows
  <2>2. ~Pending(d)
    BY <1>1, <1>3, <2>1, PendingStays DEF ApplyBegins
  <2>3. AppliedFollows(d) /\ RecordFollows(d) /\ PemFollows(d)
    BY <2>1, <2>2 DEF Follows
  <2>4. \A S : Owes(d, S)' <=> Owes(d, S)
    BY <1>1, <1>3, <2>1 DEF Owes, Users
  <2>5. \A v : Fresh(d, v) => Fresh(d, v)'
    BY <1>1, <2>1 DEF Fresh
  <2>6. Fresh(d, applied[d]) => Fresh(d, applied[d])'
    BY <1>1, <2>1 DEF Fresh
  <2>7. \A y \in Users(d) : Fresh(d, plan[y]) => Fresh(d, plan[y])'
    BY <1>1, <2>1 DEF Fresh
  <2>8. AppliedFollows(d)'
    BY <1>1, <2>1, <2>3, <2>4, <2>6, <2>7 DEF AppliedFollows, Users
  <2>9. RecordFollows(d)'
    BY <1>1, <1>3, <2>1, <2>3, <2>4 DEF RecordFollows, Users
  <2>10. PemFollows(d)'
    BY <1>1, <2>1, <2>3 DEF PemFollows, Vm
  <2> QED BY <2>8, <2>9, <2>10
<1> QED BY <1>2, <1>3

\* Of a step that does not write the files, only the beginning of an apply for the
\* request described ends what is pending.
LEMMA StillPending ==
    ASSUME NEW x \in Runs, NEW q, Base, StepOf(x, q), NEW d \in Dirs, Dir(x) = d,
           tfvars' = tfvars, ~Pending(d)', q # "applying" \/ request[x] # tfvars[d].req
    PROVE  /\ ~Pending(d)
           /\ q # "failed"
           /\ request[x] = tfvars[d].req => q \notin {"init", "apply"}
           /\ Early(x)' => dag = "AZURE_db" /\ request[x] # tfvars[d].req
<1>1. /\ dag' = dag /\ request' = request /\ Users(d)' = Users(d) /\ pc'[x] = q
      /\ x \in Users(d)
  BY Frame DEF Base, Users
<1> QED BY <1>1, PendingStays DEF Pending, Owes, Early

\* A step that changes nothing but its run's place: a run of the request described
\* that loses an apply owes it again, one that loses a write reads the state anew.
LEMMA FollowsQuiet ==
    ASSUME NEW x \in Runs, NEW q, Base, StepOf(x, q), NEW d \in Dirs, Dir(x) = d, Follows(d),
           Quiet(x, q)
    PROVE  Follows(d)'
<1>1. /\ dag' = dag /\ request' = request /\ Users(d)' = Users(d)
      /\ pc'[x] = q
      /\ \A y \in Runs : y # x =>
            /\ pc'[y] = pc[y]
            /\ plan'[y] = plan[y] /\ state'[y] = state[y] /\ pemText'[y] = pemText[y]
      /\ x \in Users(d)
      /\ UNCHANGED <<tfvars, pemFile, pubFile, applied, recorded, pem, overtaken>>
  BY Frame DEF Base, Users, Quiet, shared, keys, files, rows, history
<1>2. q \notin {"applying", "update", "commit", "done", "pub"}
  BY DEF Quiet, Restart, Running, Base, TypeOK, Steps
<1> SUFFICES ASSUME tfvars[d] # None, ~Pending(d)'
             PROVE  AppliedFollows(d)' /\ RecordFollows(d)' /\ PemFollows(d)'
  BY <1>1 DEF Follows
<1>3. ~Pending(d) /\ q # "failed" /\ (request[x] = tfvars[d].req => q \notin {"init", "apply"})
  BY <1>1, <1>2, StillPending
<1>4. AppliedFollows(d) /\ RecordFollows(d) /\ PemFollows(d)
  BY <1>3 DEF Follows
<1>5. request[x] = tfvars[d].req =>
         /\ pc[x] # "applying"
         /\ pc[x] \in {"write", "update", "commit"} => q = "write"
  BY <1>3 DEF Quiet, Restart
<1>6. /\ Owes(d, {"applying"}) => Owes(d, {"applying"})'
      /\ Owes(d, {"applying", "write", "update"}) => Owes(d, {"applying", "write", "update"})'
      /\ Owes(d, {"applying", "write", "update", "commit"}) =>
            Owes(d, {"applying", "write", "update", "commit"})'
  BY <1>1, <1>5 DEF Owes, Users
<1>7. AppliedFollows(d)'
  <2>1. Fresh(d, applied[d]) => Fresh(d, applied[d])'
    BY <1>1 DEF Fresh
  <2>2. \A y \in Users(d) : y # x => (Fresh(d, plan[y]) => Fresh(d, plan[y])')
    BY <1>1 DEF Fresh, Users
  <2> QED BY <1>1, <1>2, <1>4, <1>6, <2>1, <2>2 DEF AppliedFollows, Users
<1>8. RecordFollows(d)'
  BY <1>1, <1>2, <1>4, <1>6 DEF RecordFollows, Users
<1>9. PemFollows(d)'
  BY <1>1, <1>2, <1>4, <1>6 DEF PemFollows, Users
<1> QED BY <1>7, <1>8, <1>9

\* Half a key: its run has yet to write the files.
LEMMA FollowsKey ==
    ASSUME NEW x \in Runs, NEW q, Base, StepOf(x, q), NEW d \in Dirs, Dir(x) = d,
           WritePem(x) \/ WritePub(x), q \in {"pub", "files", "key", "failed"}
    PROVE  Follows(d)'
<1>1. /\ dag' = dag /\ Users(d)' = Users(d) /\ pc'[x] = q /\ x \in Users(d) /\ dag \in Vm
  BY Frame DEF Base, Users, WritePem, WritePub, Progress
<1>2. Pending(d)'
  BY <1>1 DEF Pending, Early, Vm
<1> QED BY <1>2 DEF Follows

\* An apply that begins finds the lock free: it builds a fixed point, and if it is for
\* another request than the files describe, it finds everything built.
LEMMA FollowsBegins ==
    ASSUME NEW x \in Runs, NEW q, Base, StepOf(x, q), NEW d \in Dirs, Dir(x) = d, Follows(d),
           ApplyBegins(x), q = "applying"
    PROVE  Follows(d)'
<1>1. /\ dag' = dag /\ request' = request /\ Users(d)' = Users(d)
      /\ pc'[x] = q
      /\ \A y \in Runs : y # x =>
            /\ pc'[y] = pc[y]
            /\ plan'[y] = plan[y] /\ state'[y] = state[y] /\ pemText'[y] = pemText[y]
      /\ x \in Users(d) /\ pc[x] = "apply"
      /\ UNCHANGED <<tfvars, pemFile, pubFile, applied, recorded, pem, overtaken, state, pemText>>
      /\ plan'[x] = Built(x)
  BY Frame DEF Base, TypeOK, Users, ApplyBegins, shared, keys, files, rows, history
<1>2. \A y \in Users(d) : pc[y] # "applying"
  BY DEF ApplyBegins, Locked
<1>3. Fresh(d, plan[x])'
  BY <1>1, ApplyBuilds DEF Fresh
<1> SUFFICES ASSUME tfvars[d] # None, ~Pending(d)'
             PROVE  AppliedFollows(d)' /\ RecordFollows(d)' /\ PemFollows(d)'
  BY <1>1 DEF Follows
<1>4. CASE request[x] = tfvars[d].req
  <2>1. /\ Owes(d, {"applying"})'
        /\ Owes(d, {"applying", "write", "update"})'
        /\ Owes(d, {"applying", "write", "update", "commit"})'
    BY <1>1, <1>4 DEF Owes
  <2>2. AppliedFollows(d)'
    BY <1>1, <1>2, <1>3, <1>4, <2>1 DEF AppliedFollows, Users
  <2> QED BY <2>1, <2>2 DEF RecordFollows, PemFollows
<1>5. CASE request[x] # tfvars[d].req
  <2>1. AppliedFollows(d) /\ RecordFollows(d) /\ PemFollows(d)
    BY <1>1, <1>5, StillPending DEF Follows
  <2>2. Fresh(d, applied[d]) /\ Built(x) = applied[d]
    BY <1>2, <2>1, ApplyBuilds DEF AppliedFollows, Owes
  <2>3. \A S : Owes(d, S)' <=> Owes(d, S)
    BY <1>1, <1>5 DEF Owes, Users
  <2>4. Fresh(d, applied[d])'
    BY <1>1, <2>2 DEF Fresh
  <2>5. AppliedFollows(d)'
    BY <1>1, <1>2, <1>3, <2>2, <2>4 DEF AppliedFollows, Users
  <2>6. RecordFollows(d)'
    BY <1>1, <1>5, <2>1, <2>3 DEF RecordFollows, Users
  <2>7. PemFollows(d)'
    BY <1>1, <1>5, <2>1, <2>3 DEF PemFollows, Users
  <2> QED BY <2>5, <2>6, <2>7
<1> QED BY <1>4, <1>5

\* An apply that ends: another run of the request described that has read the state
\* is overtaken; for another request it has changed nothing.
LEMMA FollowsEnds ==
    ASSUME NEW x \in Runs, NEW q, Base, StepOf(x, q), NEW d \in Dirs, Dir(x) = d, Follows(d),
           ApplyEnds(x), q \in {"write", "apply", "failed"}
    PROVE  Follows(d)'
<1>1. /\ dag' = dag /\ request' = request /\ Users(d)' = Users(d)
      /\ pc'[x] = q
      /\ \A y \in Runs : y # x =>
            /\ pc'[y] = pc[y]
            /\ plan'[y] = plan[y] /\ state'[y] = state[y] /\ pemText'[y] = pemText[y]
      /\ x \in Users(d) /\ pc[x] = "applying"
      /\ UNCHANGED <<tfvars, pemFile, pubFile, recorded, pem, state, pemText>>
      /\ applied'[d] = plan[x]
      /\ overtaken \subseteq overtaken'
      /\ \A y \in Runs : y # x /\ request[y] = request[x] /\ pc[y] \in {"update", "commit"}
            => request[x] \in overtaken'
  BY Frame DEF Base, TypeOK, Users, ApplyEnds, keys, files, rows
<1>2. \A y \in Users(d) : pc[y] = "applying" => y = x
  BY <1>1 DEF Base, Alone, Users
<1> SUFFICES ASSUME tfvars[d] # None, ~Pending(d)'
             PROVE  AppliedFollows(d)' /\ RecordFollows(d)' /\ PemFollows(d)'
  BY <1>1 DEF Follows
<1>3. ~Pending(d) /\ q # "failed" /\ (request[x] = tfvars[d].req => q = "write")
  BY <1>1, StillPending
<1>4. AppliedFollows(d) /\ RecordFollows(d) /\ PemFollows(d)
  BY <1>3 DEF Follows
<1>5. Fresh(d, plan[x]) /\ (request[x] # tfvars[d].req => plan[x] = applied[d])
  BY <1>1, <1>4 DEF AppliedFollows
<1>6. Fresh(d, applied[d])'
  BY <1>1, <1>5 DEF Fresh
<1>7. AppliedFollows(d)'
  BY <1>1, <1>2, <1>6 DEF AppliedFollows, Users
<1>8. CASE request[x] = tfvars[d].req
  <2>1. /\ Owes(d, {"applying", "write", "update"})'
        /\ Owes(d, {"applying", "write", "update", "commit"})'
    BY <1>1, <1>3, <1>8 DEF Owes
  <2>2. RecordFollows(d)'
    BY <1>1, <1>3, <1>8, <2>1 DEF RecordFollows, Users
  <2> QED BY <1>7, <2>1, <2>2 DEF PemFollows
<1>9. CASE request[x] # tfvars[d].req
  <2>1. \A S : Owes(d, S)' <=> Owes(d, S)
    BY <1>1, <1>9 DEF Owes, Users
  <2>2. RecordFollows(d)'
    BY <1>1, <1>4, <1>5, <1>9, <2>1 DEF RecordFollows, Users
  <2>3. PemFollows(d)'
    BY <1>1, <1>4, <1>9, <2>1 DEF PemFollows, Users
  <2> QED BY <1>7, <2>2, <2>3
<1> QED BY <1>8, <1>9

\* write_to_db: what is read is what there is, the row lock keeps a second pem off
\* until the first is committed, and what is committed is what was read.
LEMMA FollowsWrite ==
    ASSUME NEW x \in Runs, NEW q, Base, StepOf(x, q), NEW d \in Dirs, Dir(x) = d, Follows(d),
           \/ ReadState(x) /\ q = "update"
           \/ UpdateRows(x) /\ q = "commit"
           \/ CommitRows(x) /\ q \in {"done", "write", "failed"}
    PROVE  Follows(d)'
<1>1. /\ dag' = dag /\ request' = request /\ Users(d)' = Users(d)
      /\ pc'[x] = q
      /\ \A y \in Runs : y # x =>
            /\ pc'[y] = pc[y]
            /\ plan'[y] = plan[y] /\ state'[y] = state[y] /\ pemText'[y] = pemText[y]
      /\ x \in Users(d) /\ request[x] \in Requests
      /\ UNCHANGED <<tfvars, pemFile, pubFile, applied, overtaken, plan>>
  BY Frame
  DEF Base, TypeOK, Users, ReadState, UpdateRows, CommitRows, shared, keys, files, rows, history
<1> SUFFICES ASSUME tfvars[d] # None, ~Pending(d)'
             PROVE  AppliedFollows(d)' /\ RecordFollows(d)' /\ PemFollows(d)'
  BY <1>1 DEF Follows
<1> DEFINE r == tfvars[d].req
<1>2. ~Pending(d) /\ q # "failed"
  BY <1>1, StillPending
<1>3. AppliedFollows(d) /\ RecordFollows(d) /\ PemFollows(d)
  BY <1>2 DEF Follows
<1>4. pc[x] \in {"write", "update", "commit"} /\ q # "applying"
  BY DEF ReadState, UpdateRows, CommitRows
<1>5. Owes(d, {"applying"})' <=> Owes(d, {"applying"})
  BY <1>1, <1>4 DEF Owes, Users
<1>6. AppliedFollows(d)'
  <2>1. Fresh(d, applied[d]) => Fresh(d, applied[d])'
    BY <1>1 DEF Fresh
  <2>2. \A y \in Users(d) : Fresh(d, plan[y]) => Fresh(d, plan[y])'
    BY <1>1 DEF Fresh
  <2> QED BY <1>1, <1>3, <1>4, <1>5, <2>1, <2>2 DEF AppliedFollows, Users
<1>7. CASE ReadState(x) /\ q = "update"
  <2>1. /\ state'[x] = applied[d] /\ UNCHANGED <<recorded, pem, pemText>> /\ pc[x] = "write"
    BY <1>7 DEF ReadState, Base, TypeOK, shared, rows
  <2>2. /\ Owes(d, {"applying", "write", "update"}) => Owes(d, {"applying", "write", "update"})'
        /\ Owes(d, {"applying", "write", "update", "commit"}) =>
              Owes(d, {"applying", "write", "update", "commit"})'
    BY <1>1, <1>7, <2>1 DEF Owes, Users
  <2>3. RecordFollows(d)'
    BY <1>1, <1>3, <1>5, <1>7, <2>1, <2>2 DEF RecordFollows, Users
  <2>4. PemFollows(d)'
    BY <1>1, <1>3, <1>7, <2>1, <2>2 DEF PemFollows, Users
  <2> QED BY <1>6, <2>3, <2>4
<1>8. CASE UpdateRows(x) /\ q = "commit"
  <2>1. /\ pemText'[x] = pemFile[d] /\ UNCHANGED <<recorded, pem, state>> /\ pc[x] = "update"
        /\ \A y \in Runs : pc[y] = "commit" => request[y] # request[x]
    BY <1>8 DEF UpdateRows, Base, TypeOK, shared, rows
  <2>2. Owes(d, {"applying", "write", "update", "commit"}) =>
           Owes(d, {"applying", "write", "update", "commit"})'
    BY <1>1, <1>8, <2>1 DEF Owes, Users
  <2>3. RecordFollows(d)'
    BY <1>1, <1>3, <1>5, <1>8, <2>1, <2>2 DEF RecordFollows, Users
  <2>4. PemFollows(d)'
    <3>1. CASE request[x] = r
      BY <1>1, <1>3, <1>8, <2>1, <2>2, <3>1 DEF PemFollows, Users
    <3>2. CASE request[x] # r
      <4>1. \A S : Owes(d, S)' <=> Owes(d, S)
        BY <1>1, <3>2 DEF Owes, Users
      <4> QED BY <1>1, <1>3, <2>1, <3>2, <4>1 DEF PemFollows, Users
    <3> QED BY <3>1, <3>2
  <2> QED BY <1>6, <2>3, <2>4
<1>9. CASE CommitRows(x) /\ q \in {"done", "write", "failed"}
  <2>1. /\ recorded' = [recorded EXCEPT ![request[x]] = state[x]]
        /\ pem' = [pem EXCEPT ![request[x]] = pemText[x]]
        /\ pc[x] = "commit"
    BY <1>9 DEF CommitRows
  <2>2. r \in Requests
    BY DEF Base, TypeOK, TfVars
  <2>3. Owes(d, {"applying", "write", "update"}) => Owes(d, {"applying", "write", "update"})'
    BY <1>1, <2>1 DEF Owes, Users
  <2>4. CASE request[x] = r
    <3>1. recorded'[r] = state[x] /\ pem'[r] = pemText[x]
      BY <1>1, <2>1, <2>4 DEF Base, TypeOK
    <3>2. Owes(d, {"applying"})' => Owes(d, {"applying", "write", "update", "commit"})'
      BY DEF Owes
    <3>3. Owes(d, {"applying", "write", "update"})' =>
             Owes(d, {"applying", "write", "update", "commit"})'
      BY DEF Owes
    <3>4. RecordFollows(d)'
      BY <1>1, <1>3, <1>5, <1>9, <2>1, <2>4, <3>1, <3>2 DEF RecordFollows, Users
    <3>5. PemFollows(d)'
      BY <1>1, <1>3, <1>9, <2>1, <2>3, <2>4, <3>1, <3>3 DEF PemFollows, Users
    <3> QED BY <1>6, <3>4, <3>5
  <2>5. CASE request[x] # r
    <3>1. recorded'[r] = recorded[r] /\ pem'[r] = pem[r]
      BY <1>1, <2>1, <2>2, <2>5 DEF Base, TypeOK
    <3>2. \A S : Owes(d, S)' <=> Owes(d, S)
      BY <1>1, <2>5 DEF Owes, Users
    <3>3. RecordFollows(d)'
      BY <1>1, <1>3, <2>5, <3>1, <3>2 DEF RecordFollows, Users
    <3>4. PemFollows(d)'
      BY <1>1, <1>3, <2>5, <3>1, <3>2 DEF PemFollows, Users
    <3> QED BY <1>6, <3>3, <3>4
  <2> QED BY <2>4, <2>5
<1> QED BY <1>7, <1>8, <1>9

\* The keys of a directory whose step makes no key and begins or ends no apply.
LEMMA KeysUntouched ==
    ASSUME NEW x \in Runs, NEW q, Base, StepOf(x, q), NEW d \in Dirs, Dir(x) = d, KeysMatch(d),
           UNCHANGED <<pemFile, pubFile, applied, rekeyed, crossed>>,
           q \notin {"pub", "applying"}, pc[x] \in {"key", "pub"} => q \in {"key", "failed"}
    PROVE  KeysMatch(d)'
<1>1. /\ dag' = dag /\ Users(d)' = Users(d) /\ pc'[x] = q
      /\ \A y \in Runs : y # x =>
            pc'[y] = pc[y] /\ plan'[y] = plan[y] /\ tries'[y] = tries[y]
      /\ x \in Users(d) /\ pc[x] # "failed"
  BY Frame, StepOrder DEF Base, Users
<1>2. ~Keying(d)' => ~Keying(d)
  BY <1>1 DEF Keying, Users
<1> QED BY <1>1, <1>2 DEF KeysMatch, Attempt, Users

\* A private half belongs to no public half yet; a public half belongs to the private
\* half of the same attempt unless another run has come between; instances that
\* exist or are being made have another key.
LEMMA KeysMade ==
    ASSUME NEW x \in Runs, NEW q, Base, StepOf(x, q), NEW d \in Dirs, Dir(x) = d, KeysMatch(d),
           \/ WritePem(x) /\ q = "pub" /\ tries' = tries
           \/ WritePub(x) /\ q \in {"files", "key", "failed"}
    PROVE  KeysMatch(d)'
<1>1. /\ dag' = dag /\ Users(d)' = Users(d) /\ pc'[x] = q
      /\ \A y \in Runs : y # x =>
            pc'[y] = pc[y] /\ plan'[y] = plan[y] /\ tries'[y] = tries[y]
      /\ x \in Users(d)
  BY Frame DEF Base, Users
<1>2. CASE WritePem(x) /\ q = "pub" /\ tries' = tries
  <2>1. /\ pemFile'[d] = Attempt(x) /\ Attempt(x)' = Attempt(x) /\ pc[x] = "key"
        /\ crossed'[d] = (crossed[d] \/ \E y \in Users(d) : pc[y] = "pub")
    BY <1>2 DEF WritePem, Base, TypeOK, Attempt
  <2>2. Keying(d)'
    BY <1>1, <1>2 DEF Keying
  <2>3. crossed'[d] \/ \A y \in Users(d) : pc'[y] = "pub" => y = x
    BY <1>1, <2>1 DEF Users
  <2> QED BY <1>1, <2>1, <2>2, <2>3 DEF KeysMatch
<1>3. CASE WritePub(x) /\ q \in {"files", "key", "failed"}
  <2>1. /\ pubFile'[d] = Attempt(x) /\ pc[x] = "pub" /\ crossed' = crossed
        /\ UNCHANGED <<pemFile, applied>>
        /\ rekeyed'[d] = (rekeyed[d] \/ applied[d] # None \/ Locked(d))
    BY <1>3 DEF WritePub, Rekeys, Base, TypeOK
  <2>2. crossed[d] \/ pemFile[d] = Attempt(x)
    BY <1>1, <2>1 DEF KeysMatch
  <2>3. Locked(d) \/ \A y \in Users(d) : pc'[y] # "applying"
    BY <1>1, <1>3 DEF Locked, Users
  <2> QED BY <1>1, <1>3, <2>1, <2>2, <2>3 DEF KeysMatch, Attempt, Users
<1> QED BY <1>2, <1>3

\* A machine is made with the key in the directory, or keeps its own.
LEMMA KeysApplied ==
    ASSUME NEW x \in Runs, NEW q, Base, StepOf(x, q), NEW d \in Dirs, Dir(x) = d, KeysMatch(d),
           \/ ApplyBegins(x) /\ q = "applying"
           \/ ApplyEnds(x) /\ q \in {"write", "apply", "failed"}
    PROVE  KeysMatch(d)'
<1>1. /\ dag' = dag /\ Users(d)' = Users(d) /\ pc'[x] = q
      /\ \A y \in Runs : y # x =>
            pc'[y] = pc[y] /\ plan'[y] = plan[y] /\ tries'[y] = tries[y]
      /\ x \in Users(d) /\ pc[x] \in {"apply", "applying"}
      /\ UNCHANGED <<pemFile, pubFile, rekeyed, crossed>>
  BY Frame DEF Base, Users, ApplyBegins, ApplyEnds, shared, keys, history
<1>2. ~Keying(d)' => ~Keying(d)
  BY <1>1 DEF Keying, Users
<1>3. CASE ApplyBegins(x) /\ q = "applying"
  <2>1. plan'[x] = Built(x) /\ applied' = applied
    BY <1>3 DEF ApplyBegins, Base, TypeOK, shared
  <2>2. dag = "AWS_vm" => \/ Built(x).stamp = pubFile[d]
                          \/ applied[d] # None /\ Built(x).stamp = applied[d].stamp
    BY <1>3, ApplyBuilds
  <2> QED BY <1>1, <1>2, <1>3, <2>1, <2>2 DEF KeysMatch, Attempt, Users
<1>4. CASE ApplyEnds(x) /\ q \in {"write", "apply", "failed"}
  <2>1. applied'[d] = plan[x] /\ pc[x] = "applying"
    BY <1>4 DEF ApplyEnds, Base, TypeOK
  <2> QED BY <1>1, <1>2, <1>4, <2>1 DEF KeysMatch, Attempt, Users
<1> QED BY <1>3, <1>4

-----------------------------------------------------------------------------
(* The invariant.                                                           *)

LEMMA Inductive ==
    ASSUME IInv, Next
    PROVE  IInv'
<1>1. Base /\ \A d \in Dirs : Follows(d) /\ KeysMatch(d)
  BY DEF IInv
<1>2. PICK x \in Runs : \E q : StepOf(x, q)
  BY <1>1, StepShape DEF Base
<1>3. PICK q : StepOf(x, q)
  BY <1>2
<1>4. Base' /\ Dirs' = Dirs
  BY <1>1, BaseStep DEF Dirs
<1>5. ASSUME NEW d \in Dirs, Dir(x) # d
      PROVE  Follows(d)' /\ KeysMatch(d)'
  BY <1>1, <1>3, <1>5, FollowsElsewhere
<1>6. ASSUME NEW d \in Dirs, Dir(x) = d
      PROVE  Follows(d)' /\ KeysMatch(d)'
  <2>1. Follows(d) /\ KeysMatch(d)
    BY <1>1
  <2>2. CASE Quiet(x, q)
    <3>1. /\ UNCHANGED <<pemFile, pubFile, applied, rekeyed, crossed>>
          /\ q \notin {"pub", "applying"}
          /\ pc[x] \in {"key", "pub"} => q \in {"key", "failed"}
      BY <1>1, <2>2 DEF Quiet, shared, keys, history, Restart, Running, Base, TypeOK, Steps
    <3> QED BY <1>1, <1>3, <1>6, <2>1, <2>2, <3>1, FollowsQuiet, KeysUntouched
  <2>3. CASE \/ WritePem(x) /\ q = "pub" /\ tries' = tries
             \/ WritePub(x) /\ q \in {"files", "key", "failed"}
    BY <1>1, <1>3, <1>6, <2>1, <2>3, FollowsKey, KeysMade
  <2>4. CASE WriteFiles(x) /\ q \in {"init", "files", "failed"}
    <3>1. UNCHANGED <<pemFile, pubFile, applied, rekeyed, crossed>> /\ pc[x] = "files"
      BY <2>4 DEF WriteFiles, keys, history
    <3> QED BY <1>1, <1>3, <1>6, <2>1, <2>4, <3>1, FollowsFiles, KeysUntouched
  <2>5. CASE ApplyBegins(x) /\ q = "applying"
    BY <1>1, <1>3, <1>6, <2>1, <2>5, FollowsBegins, KeysApplied
  <2>6. CASE ApplyEnds(x) /\ q \in {"write", "apply", "failed"}
    BY <1>1, <1>3, <1>6, <2>1, <2>6, FollowsEnds, KeysApplied
  <2>7. CASE \/ ReadState(x) /\ q = "update"
             \/ UpdateRows(x) /\ q = "commit"
             \/ CommitRows(x) /\ q \in {"done", "write", "failed"}
    <3>1. /\ UNCHANGED <<pemFile, pubFile, applied, rekeyed, crossed>>
          /\ pc[x] \in {"write", "update", "commit"} /\ q \notin {"pub", "applying"}
      BY <2>7 DEF ReadState, UpdateRows, CommitRows, shared, keys, history
    <3> QED BY <1>1, <1>3, <1>6, <2>1, <2>7, <3>1, FollowsWrite, KeysUntouched
  <2> QED BY <1>3, <2>2, <2>3, <2>4, <2>5, <2>6, <2>7 DEF StepOf
<1> QED BY <1>4, <1>5, <1>6 DEF IInv

\* Before the first run there is nothing to be wrong about.
LEMMA InitInvariant ==
    ASSUME Init
    PROVE  IInv
<1>1. Base
  BY TerraformAssumption DEF Init, Base, TypeOK, Progress, Owned, Alone, Steps
<1>2. \A d \in Dirs : Follows(d) /\ KeysMatch(d)
  BY DEF Init, Follows, KeysMatch, Users
<1> QED BY <1>1, <1>2 DEF IInv

\* What a directory still lacks, some run still owes it.
THEOREM Invariant == Spec => []IInv
<1>1. IInv /\ UNCHANGED vars => IInv'
  <2> SUFFICES ASSUME IInv, UNCHANGED vars PROVE IInv'
    OBVIOUS
  <2>1. UNCHANGED <<dag, request, pc, tries, tfvars, pemFile, pubFile, mains, applied,
                    recorded, pem, plan, state, pemText, faults, rekeyed, crossed, overtaken>>
    BY DEF vars, shared, keys, files, rows, local, history
  <2>2. /\ \A r : DirOf(r)' = DirOf(r)
        /\ \A x : Dir(x)' = Dir(x)
        /\ \A d : Users(d)' = Users(d)
        /\ \A x : Attempt(x)' = Attempt(x)
    BY <2>1 DEF DirOf, Dir, Users, Attempt
  <2>3. Base'
    BY <2>1, <2>2 DEF IInv, Base, TypeOK, Progress, Owned, Alone
  <2>4. \A d : /\ Pending(d)' <=> Pending(d)
               /\ Keying(d)' <=> Keying(d)
               /\ \A S : Owes(d, S)' <=> Owes(d, S)
    BY <2>1, <2>2 DEF Pending, Keying, Owes, Early
  <2>5. ASSUME NEW d \in Dirs
        PROVE  Follows(d)' /\ KeysMatch(d)'
    <3>1. Follows(d) /\ KeysMatch(d)
      BY DEF IInv
    <3>2. Fresh(d, applied[d]) => Fresh(d, applied[d])'
      BY <2>1 DEF Fresh
    <3>3. \A y \in Users(d) : Fresh(d, plan[y]) => Fresh(d, plan[y])'
      BY <2>1 DEF Fresh
    <3>4. AppliedFollows(d) => AppliedFollows(d)'
      BY <2>1, <2>2, <2>4, <3>2, <3>3 DEF AppliedFollows
    <3>5. (RecordFollows(d) => RecordFollows(d)') /\ (PemFollows(d) => PemFollows(d)')
      BY <2>1, <2>2, <2>4 DEF RecordFollows, PemFollows
    <3>6. KeysMatch(d)'
      BY <2>1, <2>2, <2>4, <3>1 DEF KeysMatch
    <3> QED BY <2>1, <2>4, <3>1, <3>4, <3>5, <3>6 DEF Follows
  <2> QED BY <2>3, <2>5 DEF IInv, Dirs
<1> QED BY InitInvariant, Inductive, <1>1, PTL DEF Spec

\* Whatever the runs do to a directory, the state stays of the right shape.
THEOREM TypeCorrect == Spec => []TypeOK
<1>1. IInv => TypeOK
  BY DEF IInv, Base
<1> QED BY <1>1, Invariant, PTL

\* In a settled directory nothing is owed.
LEMMA SettledOwesNothing ==
    ASSUME IInv, NEW d \in Dirs, Settled(d)
    PROVE  /\ tfvars[d] # None /\ ~Pending(d) /\ ~Keying(d)
           /\ \A S : "done" \notin S => ~Owes(d, S)
           /\ Follows(d) /\ KeysMatch(d)
           /\ Fresh(d, applied[d])
<1>1. /\ tfvars[d] # None /\ ~Pending(d) /\ ~Keying(d)
      /\ \A S : "done" \notin S => ~Owes(d, S)
      /\ Follows(d) /\ KeysMatch(d)
  BY DEF IInv, Base, Progress, Settled, Users, Pending, Keying, Owes, Early
<1>2. "done" \notin {"applying"}
  OBVIOUS
<1> QED BY <1>1, <1>2 DEF Follows, AppliedFollows

\* Once the runs of a directory are through, however many they were and however
\* they interleaved and died, the request whose instances exist has their
\* Terraform state in its rows, unless one of its runs was overtaken.
THEOREM RecordCurrent == Spec => []RecordIsCurrent
<1>1. ASSUME IInv, NEW d \in Dirs, Settled(d), applied[d].req \notin overtaken
      PROVE  recorded[applied[d].req] = applied[d]
  <2>1. applied[d].req = tfvars[d].req /\ RecordFollows(d)
    BY <1>1, SettledOwesNothing DEF Fresh, Follows
  <2>2. ~Owes(d, {"applying", "write", "update", "commit"})
    BY <1>1, SettledOwesNothing
  <2> QED BY <1>1, <2>1, <2>2 DEF RecordFollows
<1>2. IInv => RecordIsCurrent
  BY <1>1 DEF RecordIsCurrent
<1> QED BY <1>2, Invariant, PTL

\* The key that the rows offer then opens the machines that exist, unless two runs
\* made their keys at once or one was made over the key of an AWS machine.
THEOREM KeyOpens == Spec => []PemOpens
<1>1. ASSUME IInv, NEW d \in Dirs, dag \in Vm, Settled(d), ~crossed[d],
             ~(dag = "AWS_vm" /\ rekeyed[d])
      PROVE  pem[applied[d].req] = applied[d].stamp
  <2>1. /\ Fresh(d, applied[d]) /\ PemFollows(d) /\ KeysMatch(d) /\ ~Keying(d)
        /\ ~Owes(d, {"applying", "write", "update", "commit"})
    BY <1>1, SettledOwesNothing DEF Follows
  <2>2. pem[applied[d].req] = pemFile[d] /\ pubFile[d] = pemFile[d]
    BY <1>1, <2>1 DEF PemFollows, KeysMatch, Fresh
  <2>3. applied[d].stamp = pemFile[d]
    BY <1>1, <2>1, <2>2 DEF KeysMatch, Fresh, Vm
  <2> QED BY <2>2, <2>3
<1>2. IInv => PemOpens
  BY <1>1 DEF PemOpens
<1> QED BY <1>2, Invariant, PTL

\* A request never gets the state of another one's instances but under a shared
\* Resources.name.
THEOREM StateIsOwn == Spec => []OwnState
<1>1. ASSUME IInv, NEW r \in Requests, recorded[r] # None
      PROVE  \/ recorded[r].req = r
             \/ dag \notin Aws /\ ResourcesName[r] = ResourcesName[recorded[r].req]
  BY <1>1 DEF IInv, Base, Owned, DirOf, RepositoryDir, ResourcesDir
<1>2. IInv => OwnState
  BY <1>1 DEF OwnState
<1> QED BY <1>2, Invariant, PTL

-----------------------------------------------------------------------------
(* Why a run fails.                                                         *)

\* The DAGs that write a main file per attempt, at most.
Stamping == {"AZURE_db", "AZURE_st"}

\* Main files are those of the directory's runs, and, as long as no attempt has
\* died, one for each of them.
MainsStamped ==
    \A d \in Dirs :
        /\ IsFiniteSet(mains[d])
        /\ dag \notin Stamping => mains[d] \subseteq {Unstamped}
        /\ dag \in Stamping =>
              \A m \in mains[d] : m[1] \in Users(d) /\ (faults = 0 => m[2] = 0)

\* The steps at which a run holds the lock or has been through an apply.
Through == {"applying", "write", "update", "commit", "done"}

\* An attempt is lost to a fault, to a clash or to another run's lock, and a run to
\* two of these; the run that held the lock gets on, as long as no attempt dies.
FailuresCounted ==
    \A x \in Runs :
        /\ tries[x] = 1 /\ pc[x] \notin {"init", "apply", "applying", "failed"} => faults >= 1
        /\ tries[x] = 1 /\ faults = 0 /\ ~Clash(Dir(x)) =>
              /\ pc[x] \in {"apply", "applying", "failed"}
              /\ \E z \in Users(Dir(x)) : z # x /\ pc[z] \in Through
        /\ pc[x] = "failed" =>
              /\ tries[x] = 1
              /\ \/ faults >= 2 \/ Clash(Dir(x))
                 \/ \E z \in Users(Dir(x)) : pc[z] \in Through \cup {"apply"}

CauseInv == TypeOK /\ MainsStamped /\ FailuresCounted

\* A DAG that writes one main file never finds two.
LEMMA ClashOnlyStamping ==
    ASSUME MainsStamped, NEW d \in Dirs, Clash(d)
    PROVE  dag \in Stamping
<1>1. IsFiniteSet({Unstamped}) /\ Cardinality({Unstamped}) = 1
  BY FS_Singleton
<1>2. mains[d] \subseteq {Unstamped} => Cardinality(mains[d]) <= 1 /\ Cardinality(mains[d]) \in Nat
  BY <1>1, FS_Subset, FS_CardinalityType
<1> QED BY <1>2 DEF MainsStamped, Clash

\* Without a dead attempt it takes two runs to clash.
LEMMA ClashOfTwo ==
    ASSUME MainsStamped, faults = 0, NEW x \in Runs, Users(Dir(x)) = {x}, Dir(x) \in Dirs,
           mains[Dir(x)] \subseteq Attempts \cup {Unstamped}
    PROVE  ~Clash(Dir(x))
<1> SUFFICES ASSUME Clash(Dir(x)) PROVE FALSE
  OBVIOUS
<1> DEFINE d == Dir(x)
<1>1. dag \in Stamping
  BY ClashOnlyStamping
<1>2. ASSUME NEW m \in mains[d] PROVE m = <<x, 0>>
  <2>1. m[1] = x /\ m[2] = 0
    BY <1>1 DEF MainsStamped
  <2> QED BY <2>1 DEF Attempts, Unstamped
<1>3. IsFiniteSet({<<x, 0>>}) /\ Cardinality({<<x, 0>>}) = 1
  BY FS_Singleton
<1>4. Cardinality(mains[d]) <= 1 /\ Cardinality(mains[d]) \in Nat
  <2>1. mains[d] \subseteq {<<x, 0>>}
    BY <1>2
  <2> QED BY <1>3, <2>1, FS_Subset, FS_CardinalityType
<1> QED BY <1>4 DEF Clash

\* What a task does to the main files of a directory.
LEMMA MainsStep ==
    ASSUME TypeOK, MainsStamped, NEW x \in Runs, Act(x), UNCHANGED <<dag, request>>,
           pc[x] = "files" /\ tries[x] = 1 => faults >= 1,
           NEW d \in Dirs
    PROVE  /\ IsFiniteSet(mains'[d])
           /\ dag \notin Stamping => mains'[d] \subseteq {Unstamped}
           /\ dag \in Stamping =>
                 \A m \in mains'[d] : m[1] \in Users(d) /\ (faults = 0 => m[2] = 0)
           /\ Clash(d) => Clash(d)'
<1>0. /\ IsFiniteSet(mains[d])
      /\ dag \notin Stamping => mains[d] \subseteq {Unstamped}
      /\ dag \in Stamping =>
            \A m \in mains[d] : m[1] \in Users(d) /\ (faults = 0 => m[2] = 0)
      /\ mains \in [Dirs -> SUBSET (Attempts \cup {Unstamped})]
  BY DEF MainsStamped, TypeOK
<1>1. CASE mains' = mains
  BY <1>0, <1>1 DEF Clash
<1>2. CASE /\ dag \notin Stamping
           /\ MainTf(x)
  <2>1. mains'[d] \in {mains[d], {Unstamped}}
    BY <1>0, <1>2 DEF MainTf
  <2>2. IsFiniteSet({Unstamped}) /\ ~Clash(d)
    BY <1>2, FS_Singleton, ClashOnlyStamping
  <2> QED BY <1>0, <1>2, <2>1, <2>2
<1>3. CASE dag \in Stamping /\ StampedMain(x) /\ pc[x] = "files"
  <2>1. PICK name \in {Attempt(x)} \cup {m \in mains[Dir(x)] : m[1] # x} :
           mains' = [mains EXCEPT ![Dir(x)] = @ \cup {name}]
    BY <1>3 DEF StampedMain
  <2>2. CASE d # Dir(x)
    BY <1>0, <1>3, <2>1, <2>2 DEF Clash
  <2>3. CASE d = Dir(x)
    <3>1. mains'[d] = mains[d] \cup {name}
      BY <1>0, <2>1, <2>3
    <3>2. IsFiniteSet(mains'[d])
      BY <1>0, <3>1, FS_AddElement
    <3>3. Clash(d) => Clash(d)'
      <4>1. /\ Cardinality(mains[d]) <= Cardinality(mains'[d])
            /\ Cardinality(mains[d]) \in Nat /\ Cardinality(mains'[d]) \in Nat
        BY <1>0, <3>1, <3>2, FS_Subset, FS_CardinalityType
      <4> QED BY <4>1 DEF Clash
    <3>4. name[1] \in Users(d) /\ (faults = 0 => name[2] = 0)
      <4>1. CASE name = Attempt(x)
        <5>1. name[1] = x /\ name[2] = tries[x]
          BY <4>1 DEF Attempt
        <5>2. x \in Users(d)
          BY <2>3 DEF Users
        <5> QED BY <1>3, <5>1, <5>2 DEF TypeOK
      <4>2. CASE name \in mains[d]
        BY <1>0, <1>3, <4>2
      <4> QED BY <2>1, <2>3, <4>1, <4>2
    <3> QED BY <1>0, <1>3, <3>1, <3>2, <3>3, <3>4
  <2> QED BY <2>2, <2>3
<1>4. \/ mains' = mains
      \/ dag \notin Stamping /\ MainTf(x)
      \/ dag \in Stamping /\ StampedMain(x) /\ pc[x] = "files"
  BY DEF Act, Fetch, CreateDirectory, WritePem, WritePub, WriteFiles, TerraformInit,
         ApplyBegins, ApplyEnds, ReadState, UpdateRows, CommitRows, WriteAwsVm, WriteAwsDb,
         WriteAwsSt, WriteAzureVm, WriteAzureDb, WriteAzureSt, shared, files, Stamping
<1> QED BY <1>1, <1>2, <1>3, <1>4

\* A step of x leaves the others where they are, and x on its way, where a fault or
\* a refusal puts it.
LEMMA Ways ==
    ASSUME TypeOK, NEW x \in Runs, Succeeds(x) \/ Dies(x) \/ Refused(x)
    PROVE  /\ UNCHANGED <<dag, request>>
           /\ \A y \in Runs : y # x => pc'[y] = pc[y] /\ tries'[y] = tries[y]
           /\ \/ /\ Succeeds(x) /\ faults' = faults
                 /\ pc[x] \in Steps \ {"done", "failed"} /\ pc'[x] = After[pc[x]]
                 /\ pc'[x] # "failed"
                 /\ pc[x] \in {"write", "update", "commit"} =>
                       pc'[x] \in {"update", "commit", "done"}
                 /\ pc[x] = "applying" => pc'[x] = "write"
                 /\ tries'[x] = 0 \/ tries'[x] = tries[x]
                 /\ tries'[x] = 0 \/ pc[x] \in {"key", "apply", "write", "update"}
                 /\ pc[x] = "apply" => pc'[x] = "applying"
              \/ /\ Dies(x) \/ Refused(x)
                 /\ tries'[x] = 1
                 /\ IF tries[x] = 0 THEN pc'[x] = Restart(pc[x]) ELSE pc'[x] = "failed"
                 /\ pc[x] \in Steps \ {"done", "failed"}
                 /\ \/ Dies(x) /\ faults' = faults + 1
                    \/ /\ Refused(x) /\ faults' = faults
                       /\ \/ pc[x] \in {"init", "apply"} /\ Clash(Dir(x))
                          \/ pc[x] = "apply" /\ Locked(Dir(x))
<1>1. CASE Succeeds(x)
  <2>1. pc[x] \in Steps \ {"done", "failed"}
    BY <1>1 DEF Succeeds, Act, Fetch, CreateDirectory, WritePem, WritePub, WriteFiles,
                TerraformInit, ApplyBegins, ApplyEnds, ReadState, UpdateRows, CommitRows, Steps
  <2>2. /\ pc'[x] = After[pc[x]]
        /\ tries'[x] = IF Restart(After[pc[x]]) = After[pc[x]] THEN 0 ELSE tries[x]
        /\ \A y \in Runs : y # x => pc'[y] = pc[y] /\ tries'[y] = tries[y]
        /\ UNCHANGED <<dag, request, faults>>
    BY <1>1 DEF Succeeds, TypeOK
  <2>3. /\ After["fetch"] = "dir" /\ After["dir"] \in {"key", "files"}
        /\ After["key"] = "pub" /\ After["pub"] = "files" /\ After["files"] = "init"
        /\ After["init"] = "apply" /\ After["apply"] = "applying"
        /\ After["applying"] = "write" /\ After["write"] = "update"
        /\ After["update"] = "commit" /\ After["commit"] = "done"
    BY DEF After, Steps
  <2>4. After[pc[x]] # "failed"
    BY <2>1, <2>3 DEF Steps
  <2>5. Restart(After[pc[x]]) = After[pc[x]] \/ pc[x] \in {"key", "apply", "write", "update"}
    BY <2>1, <2>3 DEF Steps, Restart
  <2> QED BY <1>1, <2>1, <2>2, <2>3, <2>4, <2>5
<1>2. CASE Dies(x) \/ Refused(x)
  <2>1. AttemptFails(x) /\ UNCHANGED <<dag, request>>
    BY <1>2 DEF Dies, Refused
  <2>2. /\ tries'[x] = 1
        /\ IF tries[x] = 0 THEN pc'[x] = Restart(pc[x]) ELSE pc'[x] = "failed"
        /\ \A y \in Runs : y # x => pc'[y] = pc[y] /\ tries'[y] = tries[y]
    BY <2>1 DEF AttemptFails, TypeOK
  <2>3. pc[x] \in Steps \ {"done", "failed"}
    BY <1>2 DEF Dies, Refused, Running, TypeOK, Steps
  <2> QED BY <1>2, <2>1, <2>2, <2>3 DEF Dies, Refused
<1> QED BY <1>1, <1>2

LEMMA CauseStep ==
    ASSUME CauseInv, TypeOK', Next
    PROVE  CauseInv'
<1>0. TypeOK /\ MainsStamped /\ FailuresCounted
  BY DEF CauseInv
<1>1. PICK x \in Runs : Succeeds(x) \/ Dies(x) \/ Refused(x)
  BY DEF Next
<1>2. UNCHANGED <<dag, request>>
  BY <1>0, <1>1, Ways
<1>3. /\ \A y \in Runs : Dir(y)' = Dir(y) /\ Dir(y) \in Dirs
      /\ \A d : Users(d)' = Users(d)
  BY <1>0, <1>2, DirsOfRequests DEF Dir, DirOf, Users
<1>4. faults \in Nat /\ faults' \in {faults, faults + 1} /\ (faults' # faults => Dies(x))
  BY <1>0, <1>1, Ways DEF TypeOK
<1>5. /\ MainsStamped'
      /\ \A d \in Dirs : Clash(d) => Clash(d)'
  <2>1. CASE Act(x)
    <3>1. pc[x] = "files" /\ tries[x] = 1 => faults >= 1
      BY <1>0 DEF FailuresCounted
    <3>2. \A d \in Dirs :
             /\ IsFiniteSet(mains'[d])
             /\ dag \notin Stamping => mains'[d] \subseteq {Unstamped}
             /\ dag \in Stamping =>
                   \A m \in mains'[d] : m[1] \in Users(d) /\ (faults = 0 => m[2] = 0)
             /\ Clash(d) => Clash(d)'
      BY <1>0, <1>2, <2>1, <3>1, MainsStep
    <3> QED BY <1>2, <1>3, <1>4, <3>2 DEF MainsStamped
  <2>2. CASE mains' = mains
    BY <1>0, <1>2, <1>3, <1>4, <2>2 DEF MainsStamped, Clash
  <2> QED BY <1>1, <2>1, <2>2 DEF Succeeds, Dies, Refused, Act, Forgets, shared, files
<1>6. ASSUME NEW y \in Runs
      PROVE  /\ tries[y] = 1 /\ pc[y] \notin {"init", "apply", "applying", "failed"} => faults >= 1
             /\ tries[y] = 1 /\ faults = 0 /\ ~Clash(Dir(y)) =>
                   /\ pc[y] \in {"apply", "applying", "failed"}
                   /\ \E z \in Users(Dir(y)) : z # y /\ pc[z] \in Through
             /\ pc[y] = "failed" =>
                   /\ tries[y] = 1
                   /\ \/ faults >= 2 \/ Clash(Dir(y))
                      \/ \E z \in Users(Dir(y)) : pc[z] \in Through \cup {"apply"}
             /\ Clash(Dir(y)) => Clash(Dir(y))'
             /\ tries[y] \in {0, 1} /\ pc[y] \in Steps
  BY <1>0, <1>3, <1>5 DEF FailuresCounted, TypeOK
\* Without a fault, a run that has got the lock stays a witness.
<1>7. ASSUME NEW z \in Runs, pc[z] \in Through, faults' = 0
      PROVE  pc'[z] \in Through
  <2>1. CASE z # x
    BY <1>0, <1>1, <1>7, <2>1, Ways
  <2>2. CASE z = x
    <3>1. ~Dies(x) /\ ~Refused(x)
      BY <1>0, <1>1, <1>4, <1>7, <2>2, Ways DEF Dies, Refused, Through
    <3> QED BY <1>0, <1>1, <1>7, <2>2, <3>1, Ways DEF Through
  <2> QED BY <2>1, <2>2
\* With one fault at most, a run that loses its attempt leaves another one.
<1>8. ASSUME NEW z \in Runs, pc[z] \in Through \cup {"apply"}, faults' < 2, ~Clash(Dir(z))'
      PROVE  \E w \in Users(Dir(z)) : pc'[w] \in Through \cup {"apply"}
  <2>0. z \in Users(Dir(z)) /\ ~Clash(Dir(z))
    BY <1>6, <1>8 DEF Users
  <2>1. CASE z # x
    BY <1>0, <1>1, <1>8, <2>0, <2>1, Ways
  <2>2. CASE z = x /\ pc'[x] # "failed"
    <3>1. pc'[x] \in Through \cup {"apply"}
      BY <1>0, <1>1, <1>8, <2>2, Ways DEF Through, Restart
    <3> QED BY <2>0, <2>2, <3>1
  <2>3. CASE z = x /\ pc'[x] = "failed"
    <3>1. tries[x] = 1 /\ (Dies(x) \/ Refused(x))
      BY <1>0, <1>1, <1>6, <1>8, <2>3, Ways DEF Restart, Through
    <3>2. CASE Refused(x)
      <4>1. PICK w \in Users(Dir(x)) : pc[w] = "applying" /\ pc[x] = "apply"
        BY <1>0, <2>0, <2>3, <3>2, Ways DEF Refused, Locked
      <4>2. pc'[w] = "applying"
        BY <1>0, <1>1, <4>1, Ways DEF Users
      <4> QED BY <2>3, <4>1, <4>2 DEF Through
    <3>3. CASE Dies(x)
      <4>1. faults = 0
        BY <1>4, <1>8, <3>3 DEF Dies
      <4>2. PICK w \in Users(Dir(x)) : w # x /\ pc[w] \in Through
        BY <1>6, <2>0, <2>3, <3>1, <4>1
      <4>3. pc'[w] \in Through
        BY <1>0, <1>1, <4>2, Ways DEF Users
      <4> QED BY <2>3, <4>2, <4>3
    <3> QED BY <3>1, <3>2, <3>3
  <2> QED BY <2>1, <2>2, <2>3
<1>9. FailuresCounted'
  <2> SUFFICES
        ASSUME NEW y \in Runs
        PROVE  /\ tries'[y] = 1 /\ pc'[y] \notin {"init", "apply", "applying", "failed"}
                     => faults' >= 1
               /\ tries'[y] = 1 /\ faults' = 0 /\ ~Clash(Dir(y))' =>
                     /\ pc'[y] \in {"apply", "applying", "failed"}
                     /\ \E z \in Users(Dir(y)) : z # y /\ pc'[z] \in Through
               /\ pc'[y] = "failed" =>
                     /\ tries'[y] = 1
                     /\ \/ faults' >= 2 \/ Clash(Dir(y))'
                        \/ \E z \in Users(Dir(y)) : pc'[z] \in Through \cup {"apply"}
    BY <1>3 DEF FailuresCounted, Clash
  <2>1. tries'[y] = 1 /\ pc'[y] \notin {"init", "apply", "applying", "failed"} => faults' >= 1
    <3> SUFFICES ASSUME tries'[y] = 1, faults' = 0
                 PROVE  pc'[y] \in {"init", "apply", "applying", "failed"}
      BY <1>4
    <3>1. faults = 0 /\ ~Dies(x)
      BY <1>0, <1>1, <1>4 DEF Dies
    <3>2. CASE y # x
      BY <1>0, <1>1, <1>6, <3>1, <3>2, Ways
    <3>3. CASE y = x /\ Succeeds(x) /\ tries[x] = 1
      BY <1>0, <1>1, <1>6, <3>1, <3>3, Ways
    <3>4. CASE y = x /\ Refused(x)
      BY <1>0, <1>1, <3>1, <3>4, Ways DEF Restart, Refused
    <3> QED BY <1>0, <1>1, <3>1, <3>2, <3>3, <3>4, Ways
  <2>2. ASSUME tries'[y] = 1, faults' = 0, ~Clash(Dir(y))'
        PROVE  /\ pc'[y] \in {"apply", "applying", "failed"}
               /\ \E z \in Users(Dir(y)) : z # y /\ pc'[z] \in Through
    <3>1. faults = 0 /\ ~Dies(x) /\ ~Clash(Dir(y))
      BY <1>0, <1>1, <1>4, <1>6, <2>2 DEF Dies
    <3>2. ASSUME tries[y] = 1
          PROVE  \E z \in Users(Dir(y)) : z # y /\ pc'[z] \in Through
      <4>1. PICK z \in Users(Dir(y)) : z # y /\ pc[z] \in Through
        BY <1>6, <3>1, <3>2
      <4> QED BY <1>7, <2>2, <4>1 DEF Users
    <3>3. CASE y # x
      BY <1>0, <1>1, <1>6, <2>2, <3>1, <3>2, <3>3, Ways
    <3>4. CASE y = x /\ Succeeds(x) /\ tries[x] = 1
      BY <1>0, <1>1, <1>6, <2>2, <3>1, <3>2, <3>4, Ways
    <3>5. CASE y = x /\ Refused(x)
      <4>1. PICK z \in Users(Dir(x)) : pc[z] = "applying" /\ pc[x] = "apply"
        BY <1>0, <3>1, <3>5, Ways DEF Refused, Locked
      <4>2. z # x /\ pc'[z] \in Through
        BY <1>7, <2>2, <4>1 DEF Users, Through
      <4>3. pc'[x] \in {"apply", "failed"}
        BY <1>0, <1>1, <3>5, <4>1, Ways DEF Restart, Refused, AttemptFails, TypeOK
      <4> QED BY <3>5, <4>1, <4>2, <4>3
    <3> QED BY <1>0, <1>1, <2>2, <3>1, <3>3, <3>4, <3>5, Ways
  <2>3. ASSUME pc'[y] = "failed"
        PROVE  /\ tries'[y] = 1
               /\ \/ faults' >= 2 \/ Clash(Dir(y))'
                  \/ \E z \in Users(Dir(y)) : pc'[z] \in Through \cup {"apply"}
    <3>1. CASE y # x
      <4>1. pc[y] = "failed" /\ tries'[y] = 1
        BY <1>0, <1>1, <1>6, <2>3, <3>1, Ways
      <4>2. CASE \E z \in Users(Dir(y)) : pc[z] \in Through \cup {"apply"}
        <5>1. PICK z \in Users(Dir(y)) : pc[z] \in Through \cup {"apply"}
          BY <4>2
        <5>2. z \in Runs /\ Dir(z) = Dir(y)
          BY DEF Users
        <5> SUFFICES ASSUME faults' < 2, ~Clash(Dir(y))'
                     PROVE  \E w \in Users(Dir(y)) : pc'[w] \in Through \cup {"apply"}
          BY <1>4, <4>1
        <5>3. ~Clash(Dir(z))'
          BY <1>3, <5>2 DEF Clash
        <5> QED BY <1>8, <5>1, <5>2, <5>3
      <4> QED BY <1>4, <1>6, <4>1, <4>2
    <3>2. CASE y = x
      <4>1. tries'[x] = 1 /\ (Dies(x) \/ Refused(x)) /\ tries[x] = 1
        BY <1>0, <1>1, <1>6, <2>3, <3>2, Ways DEF Restart, Steps
      <4> SUFFICES ASSUME faults' < 2, ~Clash(Dir(x))'
                   PROVE  \E z \in Users(Dir(x)) : pc'[z] \in Through \cup {"apply"}
        BY <1>4, <3>2, <4>1
      <4>2. CASE Refused(x)
        <5>1. PICK z \in Users(Dir(x)) : pc[z] = "applying" /\ pc[x] = "apply"
          BY <1>0, <1>6, <4>2, Ways DEF Refused, Locked
        <5> QED BY <1>0, <1>1, <5>1, Ways DEF Users, Through
      <4>3. CASE Dies(x)
        <5>1. faults = 0 /\ ~Clash(Dir(x))
          BY <1>4, <1>6, <4>3 DEF Dies
        <5>2. PICK z \in Users(Dir(x)) : z # x /\ pc[z] \in Through
          BY <1>6, <4>1, <5>1
        <5> QED BY <1>0, <1>1, <5>2, Ways DEF Users
      <4> QED BY <4>1, <4>2, <4>3
    <3> QED BY <3>1, <3>2
  <2> QED BY <2>1, <2>2, <2>3
<1> QED BY <1>5, <1>9 DEF CauseInv

\* A run that failed has lost two attempts, or its directory has two main files,
\* which takes one of the two stamping DAGs and a retry or a second run, or another
\* run of the directory has got to its apply.
THEOREM FailureExplained == Spec => []FailureHasACause
<1>1. Init => CauseInv
  <2> SUFFICES ASSUME Init PROVE CauseInv
    OBVIOUS
  <2>1. TypeOK
    BY InitInvariant DEF IInv, Base
  <2>2. MainsStamped /\ FailuresCounted
    BY FS_EmptySet DEF Init, MainsStamped, FailuresCounted
  <2> QED BY <2>1, <2>2 DEF CauseInv
<1>2. TypeOK' /\ CauseInv /\ [Next]_vars => CauseInv'
  <2>1. CauseInv /\ UNCHANGED vars => CauseInv'
    BY DEF CauseInv, TypeOK, MainsStamped, FailuresCounted, Clash, Users, Dir, DirOf, vars,
           shared, keys, files, rows, local, history
  <2> QED BY <2>1, CauseStep
<1>3. CauseInv => FailureHasACause
  <2> SUFFICES ASSUME CauseInv, NEW x \in Runs, pc[x] = "failed", ~(faults >= 2),
                      ~\E y \in Users(Dir(x)) : pc[y] \in Through \cup {"apply"}
               PROVE  /\ dag \in {"AZURE_db", "AZURE_st"}
                      /\ Clash(Dir(x))
                      /\ faults >= 1 \/ Users(Dir(x)) # {x}
    BY DEF FailureHasACause, Through
  <2>1. Clash(Dir(x)) /\ Dir(x) \in Dirs /\ faults \in Nat
    BY DirsOfRequests DEF CauseInv, FailuresCounted, TypeOK
  <2>2. dag \in Stamping
    BY <2>1, ClashOnlyStamping DEF CauseInv
  <2>3. faults >= 1 \/ Users(Dir(x)) # {x}
    BY <2>1, ClashOfTwo DEF CauseInv, TypeOK
  <2> QED BY <2>1, <2>2, <2>3 DEF Stamping
<1> QED BY <1>1, <1>2, <1>3, TypeCorrect, PTL DEF Spec
=============================================================================
