--------------------------- MODULE CatalogProofs ----------------------------
(***************************************************************************)
(* The catalog for every set of ids and any number of threads.             *)
(***************************************************************************)
EXTENDS Catalog, FiniteSetTheorems, TLAPS

Jobs == [stage : Stages, id : Ids, profile : Contents,
         previous : Contents, size : Nat, body : Shelves]

LEMMA Parameters ==
  /\ DefaultId \in Ids /\ Default \in Contents /\ None \in Contents /\ Main \in Threads
  /\ Empty \in Shelves /\ Main \notin Requests /\ Requests \subseteq Threads
BY CatalogAssumption DEF Contents, Threads, Empty, Shelves

LEMMA CountType == ASSUME NEW shelf PROVE Count(shelf) \in Nat
<1>1. {id \in Ids : shelf[id] # None} \subseteq Ids /\ IsFiniteSet(Ids)
  BY CatalogAssumption
<1> QED
  BY <1>1, FS_Subset, FS_CardinalityType DEF Count

LEMMA JobTypes ==
  /\ \A stage \in Stages, id \in Ids, profile \in Contents : Job(stage, id, profile) \in Jobs
  /\ Free \in Jobs /\ Free.stage = "free"
<1>1. \A stage \in Stages, id \in Ids, profile \in Contents : Job(stage, id, profile) \in Jobs
  BY Parameters DEF Job, Jobs
<1>2. "free" \in Stages /\ Free.stage = "free"
  BY DEF Stages, Free, Job
<1> QED
  BY <1>1, <1>2, Parameters DEF Free

LEMMA JobFields ==
  ASSUME NEW stage, NEW id, NEW profile
  PROVE  /\ Job(stage, id, profile).stage = stage /\ Job(stage, id, profile).id = id
         /\ Job(stage, id, profile).profile = profile
BY DEF Job

----------------------------------------------------------------------------
(* Types                                                                   *)

LEMMA TypeParts ==
  ASSUME TypeOK
  PROVE  /\ mem \in Shelves /\ file \in Shelves /\ work \in [Threads -> Jobs]
         /\ Snapshot \in [mem : Shelves, file : Shelves]
BY DEF TypeOK, Jobs, Snapshot

LEMMA TypeInit == Init => TypeOK
<1> SUFFICES ASSUME Init PROVE TypeOK
  OBVIOUS
<1>1. mem \in Shelves /\ file \in Shelves /\ Snapshot \in [mem : Shelves, file : Shelves]
  BY Parameters DEF Init, Snapshot
<1>2. work \in [Threads -> Jobs] /\ answer \in [Threads -> {"none", "ok", "error", "raised"}]
  BY JobTypes DEF Init
<1>3. requests \in 0..MaxRequests /\ starts \in 0..MaxStarts
  BY CatalogAssumption DEF Init
<1>6. [mem |-> mem, file |-> file, base |-> mem] \in Sights
  BY <1>1 DEF Sights
<1>4. /\ lone \in [Threads -> BOOLEAN] /\ began \in [Threads -> [mem : Shelves, file : Shelves]]
      /\ touched \subseteq Ids /\ loaded \in Shelves /\ alone \in BOOLEAN /\ seen \in Sights
  BY <1>1, <1>6, Parameters DEF Init
<1>5. phase \in {"down", "seed", "up"}
  BY DEF Init
<1> QED
  BY <1>1, <1>2, <1>3, <1>4, <1>5, Zenon DEF TypeOK, Jobs

\* What Observe adds.
LEMMA SeenType ==
  ASSUME TypeOK, Observe, mem' \in Shelves, file' \in Shelves
  PROVE  seen' \in Sights
<1>1. \A base \in Shelves : [mem |-> mem', file |-> file', base |-> base] \in Sights
  BY DEF Sights
<1>2. seen \in Sights /\ seen.base \in Shelves
  BY DEF TypeOK, Sights
<1>3. \/ seen' = seen
      \/ seen' = [mem |-> mem', file |-> file', base |-> seen.base]
      \/ seen' = [mem |-> mem', file |-> file', base |-> mem']
  BY DEF Observe
<1> QED
  BY <1>1, <1>2, <1>3

LEMMA TakeTypes ==
  ASSUME TypeOK, NEW t \in Threads, NEW job \in Jobs, Take(t, job)
  PROVE  /\ work' \in [Threads -> Jobs] /\ answer' \in [Threads -> {"none", "ok", "error", "raised"}]
         /\ lone' \in [Threads -> BOOLEAN] /\ alone' \in BOOLEAN
<1>1. work \in [Threads -> Jobs] /\ answer \in [Threads -> {"none", "ok", "error", "raised"}]
  BY TypeParts DEF TypeOK
<1>2. work' \in [Threads -> Jobs] /\ answer' \in [Threads -> {"none", "ok", "error", "raised"}]
  BY <1>1 DEF Take
<1>3. lone' \in [Threads -> BOOLEAN] /\ alone' \in BOOLEAN
  BY DEF Take
<1> QED
  BY <1>2, <1>3

LEMMA StepTypes ==
  ASSUME TypeOK, NEW t \in Threads, Steps(t)
  PROVE  /\ mem' \in Shelves /\ file' \in Shelves /\ work' \in [Threads -> Jobs]
         /\ answer' \in [Threads -> {"none", "ok", "error", "raised"}]
         /\ phase' \in {"down", "seed", "up"} /\ UNCHANGED <<counters, ghosts>>
<1>0. /\ mem \in Shelves /\ file \in Shelves /\ work \in [Threads -> Jobs] /\ work[t] \in Jobs
      /\ answer \in [Threads -> {"none", "ok", "error", "raised"}] /\ phase \in {"down", "seed", "up"}
  BY TypeParts DEF TypeOK
<1>a. /\ work[t].id \in Ids /\ work[t].profile \in Contents /\ work[t].previous \in Contents
      /\ work[t].body \in Shelves
  BY <1>0 DEF Jobs
<1>b. \A id \in Ids, c \in Contents : [mem EXCEPT ![id] = c] \in Shelves /\ mem[id] \in Contents
  BY <1>0 DEF Shelves
<1>1. ASSUME NEW job \in Jobs, Goes(t, job)
      PROVE  /\ work' \in [Threads -> Jobs]
             /\ answer' \in [Threads -> {"none", "ok", "error", "raised"}]
             /\ phase' \in {"down", "seed", "up"} /\ UNCHANGED <<counters, ghosts>>
  BY <1>0, <1>1 DEF Goes
<1>2. ASSUME NEW a \in {"ok", "error", "raised"}, Answers(t, a)
      PROVE  /\ work' \in [Threads -> Jobs]
             /\ answer' \in [Threads -> {"none", "ok", "error", "raised"}]
             /\ phase' \in {"down", "seed", "up"} /\ UNCHANGED <<counters, ghosts>>
  BY <1>0, <1>2, JobTypes DEF Answers
<1>3. CASE Look(t)
  <2>1. [work[t] EXCEPT !.stage = "put", !.previous = mem[work[t].id]] \in Jobs
    BY <1>0, <1>a, <1>b DEF Jobs, Stages
  <2> QED
    BY <1>0, <1>1, <1>3, <2>1 DEF Look
<1>4. CASE Put(t)
  <2>1. mem' \in Shelves /\ file' = file
    BY <1>4, <1>a, <1>b DEF Put
  <2>2. Count(mem') \in Nat
    BY CountType
  <2>3. [work[t] EXCEPT !.stage = "encode", !.size = Count(mem')] \in Jobs
    BY <1>0, <2>2 DEF Jobs, Stages
  <2> QED
    BY <1>0, <1>1, <1>4, <2>1, <2>3 DEF Put
<1>5. CASE Pop(t)
  <2> DEFINE id == work[t].id
  <2>1. CASE mem[id] = None
    BY <1>0, <1>2, <1>5, <2>1 DEF Pop
  <2>2. CASE mem[id] # None
    <3>1. mem' \in Shelves /\ file' = file
      BY <1>5, <1>a, <1>b, <2>2, Parameters DEF Pop
    <3>2. Count(mem') \in Nat
      BY CountType
    <3>3. [work[t] EXCEPT !.stage = "encode", !.previous = mem[id], !.size = Count(mem')] \in Jobs
      BY <1>0, <1>a, <1>b, <3>2 DEF Jobs, Stages
    <3> QED
      BY <1>0, <1>1, <1>5, <2>2, <3>1, <3>3 DEF Pop
  <2> QED
    BY <2>1, <2>2
<1>6. CASE Encode(t)
  <2>1. [work[t] EXCEPT !.stage = "replace", !.body = mem] \in Jobs
    BY <1>0 DEF Jobs, Stages
  <2> QED
    BY <1>0, <1>1, <1>2, <1>6, <2>1 DEF Encode
<1>7. CASE Replace(t)
  <2>1. [work[t] EXCEPT !.stage = "rollback"] \in Jobs
    BY <1>0 DEF Jobs, Stages
  <2> QED
    BY <1>0, <1>a, <1>1, <1>2, <1>7, <2>1 DEF Replace
<1>8. CASE Rollback(t)
  <2>1. mem' \in Shelves
    BY <1>8, <1>a, <1>b DEF Rollback
  <2> QED
    BY <1>0, <1>2, <1>8, <2>1 DEF Rollback
<1> QED
  BY <1>3, <1>4, <1>5, <1>6, <1>7, <1>8 DEF Steps

LEMMA Asked ==
  ASSUME NEW r \in Requests, Asks(r)
  PROVE  \E stage \in {"look", "pop"}, id \in Ids, profile \in Contents :
           /\ Accept(r, Job(stage, id, profile))
           /\ stage = "pop" => mem[id] # None /\ profile = None
BY Parameters DEF Asks, Create, Patch, Delete, Contents

LEMMA TypeStep == TypeOK /\ [Next]_vars => TypeOK'
<1> SUFFICES ASSUME TypeOK, [Next]_vars PROVE TypeOK'
  OBVIOUS
<1>0. /\ mem \in Shelves /\ file \in Shelves /\ work \in [Threads -> Jobs]
      /\ Snapshot \in [mem : Shelves, file : Shelves]
  BY TypeParts
<1>1. ASSUME NEW r \in Requests, Asks(r), Observe PROVE TypeOK'
  <2>1. PICK stage \in {"look", "pop"}, id \in Ids, profile \in Contents :
          Accept(r, Job(stage, id, profile))
    BY <1>1, Asked
  <2>2. Job(stage, id, profile) \in Jobs /\ Job(stage, id, profile).id = id /\ r \in Threads
    BY JobTypes, JobFields, Parameters DEF Stages
  <2>3. /\ work' \in [Threads -> Jobs] /\ answer' \in [Threads -> {"none", "ok", "error", "raised"}]
        /\ lone' \in [Threads -> BOOLEAN] /\ alone' \in BOOLEAN
    BY <2>1, <2>2, TakeTypes DEF Accept
  <2>4. /\ began' \in [Threads -> [mem : Shelves, file : Shelves]] /\ touched' \subseteq Ids
    BY <1>0, <2>1, <2>2 DEF Accept, TypeOK
  <2>5. requests' \in 0..MaxRequests
    <3>1. requests < MaxRequests /\ requests' = requests + 1
      BY <2>1 DEF Accept
    <3>2. requests \in 0..MaxRequests /\ MaxRequests \in Nat
      BY CatalogAssumption DEF TypeOK
    <3> QED
      BY <3>1, <3>2
  <2>6. UNCHANGED <<phase, mem, file, starts, loaded>>
    BY <2>1 DEF Accept
  <2>7. seen' \in Sights
    BY <1>0, <1>1, <2>6, SeenType
  <2> QED
    BY <2>3, <2>4, <2>5, <2>6, <2>7 DEF TypeOK, Jobs
<1>2. ASSUME NEW t \in Threads, Steps(t), Observe PROVE TypeOK'
  <2>1. /\ mem' \in Shelves /\ file' \in Shelves /\ work' \in [Threads -> Jobs]
        /\ answer' \in [Threads -> {"none", "ok", "error", "raised"}]
        /\ phase' \in {"down", "seed", "up"} /\ UNCHANGED <<counters, ghosts>>
    BY <1>2, StepTypes
  <2>2. seen' \in Sights
    BY <1>2, <2>1, SeenType
  <2> QED
    BY <2>1, <2>2 DEF TypeOK, Jobs, counters, ghosts
<1>3. CASE Start /\ Observe
  <2>1. starts' \in 0..MaxStarts
    <3>1. starts < MaxStarts /\ starts' = starts + 1
      BY <1>3 DEF Start
    <3>2. starts \in 0..MaxStarts /\ MaxStarts \in Nat
      BY CatalogAssumption DEF TypeOK
    <3> QED
      BY <3>1, <3>2
  <2>2. mem' \in Shelves /\ file' \in Shelves
    BY <1>0, <1>3 DEF Start, Serve
  <2>3. seen' \in Sights
    BY <1>3, <2>2, SeenType
  <2>4. CASE UNCHANGED <<phase, mem, work, answer, lone, alone, loaded, touched>>
    BY <1>3, <2>1, <2>3, <2>4 DEF Start, TypeOK
  <2>5. CASE Serve(file)
    <3>1. /\ work' \in [Threads -> Jobs] /\ answer' \in [Threads -> {"none", "ok", "error", "raised"}]
          /\ lone' \in [Threads -> BOOLEAN] /\ alone' \in BOOLEAN
      <4>1. Job("look", DefaultId, Default) \in Jobs
        BY JobTypes, Parameters DEF Stages
      <4>2. CASE file = Empty
        BY <2>5, <4>1, <4>2, TakeTypes, Parameters DEF Serve
      <4>3. CASE file # Empty
        BY <1>0, <2>5, <4>3 DEF Serve, TypeOK
      <4> QED
        BY <4>2, <4>3
    <3>2. touched' \subseteq Ids /\ loaded' \in Shelves /\ phase' \in {"down", "seed", "up"}
      BY <1>0, <2>5, Parameters DEF Serve
    <3>3. UNCHANGED <<file, requests, began>>
      BY <1>3 DEF Start
    <3> QED
      BY <2>1, <2>2, <2>3, <3>1, <3>2, <3>3 DEF TypeOK, Jobs
  <2> QED
    BY <1>3, <2>4, <2>5 DEF Start
<1>4. CASE Kill /\ Observe
  <2>1. mem' \in Shelves /\ file' \in Shelves /\ work' \in [Threads -> Jobs]
    BY <1>0, <1>4, Parameters, JobTypes DEF Kill
  <2>2. seen' \in Sights
    BY <1>4, <2>1, SeenType
  <2> QED
    BY <1>4, <2>1, <2>2 DEF Kill, TypeOK, Jobs, counters, ghosts
<1>5. CASE UNCHANGED vars
  BY <1>5 DEF TypeOK, vars, counters, ghosts
<1> QED
  BY <1>1, <1>2, <1>3, <1>4, <1>5 DEF Next

(* Every variable of the catalog keeps its type.                           *)
THEOREM CatalogTypeCorrect == Spec => []TypeOK
BY TypeInit, TypeStep, PTL DEF Spec

----------------------------------------------------------------------------
(* What one step of a request does, and what it leaves alone               *)

LEMMA StepFacts ==
  ASSUME TypeOK, NEW t \in Threads, Steps(t)
  PROVE  /\ Busy(t) /\ UNCHANGED <<counters, ghosts>>
         /\ \A u \in Threads : u # t => work'[u] = work[u] /\ answer'[u] = answer[u]
         /\ \A id \in Ids : id # work[t].id => mem'[id] = mem[id]
         /\ file' = file \/ (At(t, "replace") /\ file' = work[t].body)
         /\ \/ /\ phase' = phase /\ answer'[t] = answer[t] /\ work'[t].stage # "free"
               /\ work'[t].id = work[t].id
               /\ work'[t].stage = "replace" => work'[t].body = mem /\ mem' = mem
            \/ /\ work'[t] = Free /\ answer'[t] \in {"ok", "error", "raised"}
               /\ phase' = IF t # Main THEN phase ELSE IF answer'[t] = "ok" THEN "up" ELSE "down"
<1>0. /\ mem \in Shelves /\ work \in [Threads -> Jobs] /\ work[t] \in Jobs
      /\ answer \in [Threads -> {"none", "ok", "error", "raised"}] /\ work[t].id \in Ids
  BY TypeParts DEF TypeOK, Jobs
<1>a. \A id \in Ids : \A c : [mem EXCEPT ![id] = c] \in [Ids -> Contents \cup {c}]
                              /\ \A i \in Ids : i # id => [mem EXCEPT ![id] = c][i] = mem[i]
  BY <1>0 DEF Shelves
<1>1. ASSUME NEW job, Goes(t, job), job.stage # "free", job.id = work[t].id
      PROVE  /\ UNCHANGED <<counters, ghosts>> /\ phase' = phase /\ answer'[t] = answer[t]
             /\ work'[t] = job /\ work'[t].stage # "free" /\ work'[t].id = work[t].id
             /\ \A u \in Threads : u # t => work'[u] = work[u] /\ answer'[u] = answer[u]
  BY <1>0, <1>1 DEF Goes
<1>2. ASSUME NEW a \in {"ok", "error", "raised"}, Answers(t, a)
      PROVE  /\ UNCHANGED <<counters, ghosts>> /\ work'[t] = Free
             /\ answer'[t] \in {"ok", "error", "raised"}
             /\ phase' = IF t # Main THEN phase ELSE IF answer'[t] = "ok" THEN "up" ELSE "down"
             /\ \A u \in Threads : u # t => work'[u] = work[u] /\ answer'[u] = answer[u]
  BY <1>0, <1>2 DEF Answers
<1>3. CASE Look(t)
  <2> DEFINE job == [work[t] EXCEPT !.stage = "put", !.previous = mem[work[t].id]]
  <2>1. job.stage = "put" /\ job.id = work[t].id
    BY <1>0 DEF Jobs
  <2>2. Goes(t, job) /\ UNCHANGED <<mem, file>> /\ At(t, "look")
    BY <1>3 DEF Look
  <2> HIDE DEF job
  <2> QED
    BY <1>1, <2>1, <2>2 DEF At, Busy
<1>4. CASE Put(t)
  <2> DEFINE job == [work[t] EXCEPT !.stage = "encode", !.size = Count(mem')]
  <2>1. job.stage = "encode" /\ job.id = work[t].id
    BY <1>0 DEF Jobs
  <2>2. /\ Goes(t, job) /\ UNCHANGED file /\ At(t, "put")
        /\ mem' = [mem EXCEPT ![work[t].id] = work[t].profile]
    BY <1>4 DEF Put
  <2> HIDE DEF job
  <2> QED
    BY <1>0, <1>a, <1>1, <2>1, <2>2 DEF At, Busy
<1>5. CASE Pop(t)
  <2>1. CASE mem[work[t].id] = None
    BY <1>2, <1>5, <2>1 DEF Pop, At, Busy
  <2>2. CASE mem[work[t].id] # None
    <3> DEFINE job == [work[t] EXCEPT !.stage = "encode", !.previous = mem[work[t].id],
                                      !.size = Count(mem')]
    <3>1. job.stage = "encode" /\ job.id = work[t].id
      BY <1>0 DEF Jobs
    <3>2. /\ Goes(t, job) /\ UNCHANGED file /\ At(t, "pop")
          /\ mem' = [mem EXCEPT ![work[t].id] = None]
      BY <1>5, <2>2 DEF Pop
    <3> HIDE DEF job
    <3> QED
      BY <1>0, <1>a, <1>1, <3>1, <3>2 DEF At, Busy
  <2> QED
    BY <2>1, <2>2
<1>6. CASE Encode(t)
  <2> DEFINE job == [work[t] EXCEPT !.stage = "replace", !.body = mem]
  <2>1. job.stage = "replace" /\ job.id = work[t].id /\ job.body = mem
    BY <1>0 DEF Jobs
  <2>2. UNCHANGED <<mem, file>> /\ At(t, "encode") /\ (Goes(t, job) \/ Answers(t, "raised"))
    BY <1>6 DEF Encode
  <2> HIDE DEF job
  <2>3. CASE Goes(t, job)
    BY <1>1, <2>1, <2>2, <2>3 DEF At, Busy
  <2>4. CASE Answers(t, "raised")
    BY <1>2, <2>2, <2>4 DEF At, Busy
  <2> QED
    BY <2>2, <2>3, <2>4
<1>7. CASE Replace(t)
  <2> DEFINE job == [work[t] EXCEPT !.stage = "rollback"]
  <2>1. job.stage = "rollback" /\ job.id = work[t].id
    BY <1>0 DEF Jobs
  <2>2. /\ UNCHANGED mem /\ At(t, "replace")
        /\ \/ file' = work[t].body /\ Answers(t, "ok")
           \/ UNCHANGED file /\ Goes(t, job)
    BY <1>7 DEF Replace
  <2> HIDE DEF job
  <2>3. CASE file' = work[t].body /\ Answers(t, "ok")
    BY <1>2, <2>2, <2>3 DEF At, Busy
  <2>4. CASE UNCHANGED file /\ Goes(t, job)
    BY <1>1, <2>1, <2>2, <2>4 DEF At, Busy
  <2> QED
    BY <2>2, <2>3, <2>4
<1>8. CASE Rollback(t)
  BY <1>0, <1>a, <1>2, <1>8 DEF Rollback, At, Busy
<1> QED
  BY <1>3, <1>4, <1>5, <1>6, <1>7, <1>8 DEF Steps

\* Requests are served while the service is up; the seeding comes before.
PhaseInv ==
  /\ Busy(Main) => phase = "seed"
  /\ \A r \in Requests : Busy(r) => phase = "up"
  /\ \A t \in Threads : Busy(t) => answer[t] = "none"

LEMMA AskFacts ==
  ASSUME TypeOK, NEW r \in Requests, Asks(r)
  PROVE  /\ phase = "up" /\ ~Busy(r) /\ UNCHANGED <<phase, mem, file, loaded>>
         /\ \A u \in Threads : u # r => work'[u] = work[u] /\ answer'[u] = answer[u]
         /\ work'[r].stage \in {"look", "pop"} /\ answer'[r] = "none"
         /\ work'[r].stage = "pop" => mem[work'[r].id] # None /\ work'[r].profile = None
         /\ work'[r].id \in Ids /\ touched' = touched \cup {work'[r].id}
         /\ began' = [began EXCEPT ![r] = Snapshot]
         /\ lone' = [u \in Threads |-> IF u = r THEN \A v \in Threads : ~Busy(v) ELSE FALSE]
         /\ alone' = (alone /\ \A v \in Threads : ~Busy(v))
<1>1. PICK stage \in {"look", "pop"}, id \in Ids, profile \in Contents :
        /\ Accept(r, Job(stage, id, profile))
        /\ stage = "pop" => mem[id] # None /\ profile = None
  BY Asked
<1> DEFINE job == Job(stage, id, profile)
<1>2. /\ job.stage = stage /\ job.id = id /\ job.profile = profile /\ r \in Threads
      /\ stage = "pop" => mem[id] # None /\ profile = None
  BY <1>1, JobFields, Parameters
<1>3. Accept(r, job)
  BY <1>1
<1>4. work \in [Threads -> Jobs] /\ answer \in [Threads -> {"none", "ok", "error", "raised"}]
  BY TypeParts DEF TypeOK
<1> HIDE DEF job
<1>5. work' = [work EXCEPT ![r] = job] /\ answer' = [answer EXCEPT ![r] = "none"]
  BY <1>3 DEF Accept, Take
<1>6. /\ work'[r] = job /\ answer'[r] = "none"
      /\ \A u \in Threads : u # r => work'[u] = work[u] /\ answer'[u] = answer[u]
  BY <1>2, <1>4, <1>5
<1>7. /\ phase = "up" /\ ~Busy(r) /\ UNCHANGED <<phase, mem, file, loaded>>
      /\ touched' = touched \cup {job.id} /\ began' = [began EXCEPT ![r] = Snapshot]
      /\ lone' = [u \in Threads |-> IF u = r THEN \A v \in Threads : ~Busy(v) ELSE FALSE]
      /\ alone' = (alone /\ \A v \in Threads : ~Busy(v))
  BY <1>3, Zenon DEF Accept, Take
<1> QED
  BY <1>2, <1>6, <1>7

\* A start that serves: from a shelf with profiles, or with the default to write.
LEMMA StartFacts ==
  ASSUME TypeOK, PhaseInv, Start, phase' # "down"
  PROVE  /\ mem' = file /\ file' = file /\ loaded' = file /\ phase = "down"
         /\ \A r \in Requests : work'[r].stage = "free"
         /\ \/ phase' = "up" /\ work'[Main].stage = "free" /\ alone' = alone
            \/ /\ phase' = "seed" /\ work'[Main].stage = "look" /\ work'[Main].id = DefaultId
               /\ touched' = {DefaultId} /\ answer'[Main] = "none" /\ alone' = alone
               /\ lone'[Main]
<1>1. \A t \in Threads : work[t].stage = "free"
  BY DEF PhaseInv, Start, Busy, Threads
<1>2. Serve(file) /\ phase = "down" /\ UNCHANGED file
  BY DEF Start
<1>3. CASE file = Empty
  <2> DEFINE job == Job("look", DefaultId, Default)
  <2>1. job.stage = "look" /\ job.id = DefaultId
    BY JobFields
  <2>2. /\ mem' = file /\ loaded' = file /\ phase' = "seed" /\ touched' = {DefaultId} /\ Take(Main, job)
    BY <1>2, <1>3 DEF Serve
  <2>3. work \in [Threads -> Jobs] /\ answer \in [Threads -> {"none", "ok", "error", "raised"}]
    BY TypeParts DEF TypeOK
  <2> HIDE DEF job
  <2>4. /\ work' = [work EXCEPT ![Main] = job] /\ answer' = [answer EXCEPT ![Main] = "none"]
        /\ alone' = (alone /\ \A v \in Threads : ~Busy(v))
        /\ lone' = [u \in Threads |-> IF u = Main THEN \A v \in Threads : ~Busy(v) ELSE FALSE]
    BY <2>2, Zenon DEF Take
  <2>5. alone' = alone /\ lone'[Main]
    BY <1>1, <2>4, Parameters DEF Busy, TypeOK
  <2> QED
    BY <1>1, <1>2, <2>1, <2>2, <2>3, <2>4, <2>5, Parameters DEF Threads
<1>4. CASE file # Empty
  BY <1>1, <1>2, <1>4, Parameters DEF Serve, Threads
<1> QED
  BY <1>3, <1>4

LEMMA PhaseStep == TypeOK /\ PhaseInv /\ [Next]_vars => PhaseInv'
<1> SUFFICES ASSUME TypeOK, PhaseInv, [Next]_vars PROVE PhaseInv'
  OBVIOUS
<1>1. ASSUME NEW r \in Requests, Asks(r) PROVE PhaseInv'
  BY <1>1, AskFacts, Parameters DEF PhaseInv, Busy, Threads
<1>2. ASSUME NEW t \in Threads, Steps(t) PROVE PhaseInv'
  <2>1. /\ Busy(t)
        /\ \A u \in Threads : u # t => work'[u] = work[u] /\ answer'[u] = answer[u]
        /\ \/ phase' = phase /\ answer'[t] = answer[t]
           \/ /\ work'[t] = Free
              /\ phase' = IF t # Main THEN phase ELSE IF answer'[t] = "ok" THEN "up" ELSE "down"
    BY <1>2, StepFacts
  <2>2. CASE phase' = phase /\ answer'[t] = answer[t]
    BY <2>1, <2>2, Parameters DEF PhaseInv, Busy, Threads
  <2>3. CASE /\ work'[t] = Free
             /\ phase' = IF t # Main THEN phase ELSE IF answer'[t] = "ok" THEN "up" ELSE "down"
    BY <2>1, <2>3, JobTypes, Parameters DEF PhaseInv, Busy, Threads
  <2> QED
    BY <2>1, <2>2, <2>3
<1>3. CASE Start
  <2>1. CASE phase' # "down"
    BY <1>3, <2>1, StartFacts, Parameters DEF PhaseInv, Busy, Threads
  <2>2. CASE phase' = "down"
    BY <1>3, <2>2 DEF Start, Serve, PhaseInv, Busy
  <2> QED
    BY <2>1, <2>2
<1>4. CASE Kill
  BY <1>4, JobTypes, Parameters DEF Kill, PhaseInv, Busy, Threads
<1>5. CASE UNCHANGED vars
  BY <1>5 DEF vars, PhaseInv, Busy
<1> QED
  BY <1>1, <1>2, <1>3, <1>4, <1>5 DEF Next

LEMMA PhaseInit == Init => PhaseInv
BY JobTypes, Parameters DEF Init, PhaseInv, Busy, Threads

LEMMA PhaseAlways == Spec => [](TypeOK /\ PhaseInv)
BY TypeInit, TypeStep, PhaseInit, PhaseStep, PTL DEF Spec

----------------------------------------------------------------------------
(* The profiles nobody asks to change.  What waits to be written has them  *)
(* as they were loaded.                                                    *)

OthersInv ==
  /\ OthersUntouched
  /\ \A t \in Threads : Busy(t) =>
       /\ work[t].id \in touched
       /\ At(t, "replace") => \A id \in Ids \ touched : work[t].body[id] = loaded[id]

LEMMA OthersStep == TypeOK /\ PhaseInv /\ OthersInv /\ [Next]_vars => OthersInv'
<1> SUFFICES ASSUME TypeOK, PhaseInv, OthersInv, [Next]_vars PROVE OthersInv'
  OBVIOUS
<1>1. ASSUME NEW r \in Requests, Asks(r) PROVE OthersInv'
  BY <1>1, AskFacts DEF OthersInv, OthersUntouched, Busy, At
<1>2. ASSUME NEW t \in Threads, Steps(t) PROVE OthersInv'
  <2>1. /\ Busy(t) /\ touched' = touched /\ loaded' = loaded
        /\ \A u \in Threads : u # t => work'[u] = work[u]
        /\ \A id \in Ids : id # work[t].id => mem'[id] = mem[id]
        /\ file' = file \/ (At(t, "replace") /\ file' = work[t].body)
        /\ \/ /\ work'[t].id = work[t].id
              /\ work'[t].stage = "replace" => work'[t].body = mem /\ mem' = mem
           \/ work'[t] = Free
    BY <1>2, StepFacts DEF ghosts
  <2>2. phase # "down"
    BY <2>1, Parameters DEF PhaseInv, Threads
  <2>3. work[t].id \in touched
        /\ \A id \in Ids \ touched : mem[id] = loaded[id] /\ file[id] = loaded[id]
    BY <2>1, <2>2 DEF OthersInv, OthersUntouched
  <2>4. \A id \in Ids \ touched : file'[id] = loaded[id] /\ mem'[id] = loaded[id]
    BY <2>1, <2>3 DEF OthersInv
  <2>5. OthersUntouched'
    BY <2>1, <2>3, <2>4 DEF OthersUntouched
  <2>6. ASSUME NEW u \in Threads, Busy(u)'
        PROVE  /\ work'[u].id \in touched
               /\ At(u, "replace")' => \A id \in Ids \ touched : work'[u].body[id] = loaded[id]
    <3>1. CASE u # t
      BY <2>1, <2>4, <2>6, <3>1 DEF OthersInv, Busy, At
    <3>2. CASE u = t
      BY <2>1, <2>3, <2>4, <2>6, <3>2, JobTypes DEF Busy, At
    <3> QED
      BY <3>1, <3>2
  <2> QED
    BY <2>1, <2>5, <2>6 DEF OthersInv
<1>3. CASE Start
  <2>1. CASE phase' # "down"
    BY <1>3, <2>1, StartFacts, Parameters DEF OthersInv, OthersUntouched, Busy, At, Threads
  <2>2. CASE phase' = "down"
    BY <1>3, <2>2 DEF Start, Serve, OthersInv, OthersUntouched, Busy, At
  <2> QED
    BY <2>1, <2>2
<1>4. CASE Kill
  BY <1>4, JobTypes DEF Kill, OthersInv, OthersUntouched, Busy
<1>5. CASE UNCHANGED vars
  BY <1>5 DEF vars, ghosts, OthersInv, OthersUntouched, Busy, At
<1> QED
  BY <1>1, <1>2, <1>3, <1>4, <1>5 DEF Next

(* However requests overlap, fail and are cut off, a profile that none of  *)
(* them names stays as it was loaded, in the dictionary and in the file,   *)
(* though every request writes all of the dictionary.                      *)
THEOREM OthersStay == Spec => []OthersUntouched
<1>1. Init => OthersInv
  BY JobTypes DEF Init, OthersInv, OthersUntouched, Busy
<1>2. OthersInv => OthersUntouched
  BY DEF OthersInv
<1> QED
  BY <1>1, <1>2, OthersStep, PhaseAlways, PTL DEF Spec

----------------------------------------------------------------------------
(* A request that has been the only one since it came                      *)

Recorded(t) ==
  /\ file = began[t].file
  /\ work[t].stage \in {"look", "pop", "put"} => mem = began[t].mem
  /\ At(t, "pop") => mem[work[t].id] # None /\ work[t].profile = None
  /\ work[t].stage \notin {"look", "pop"} => work[t].previous = began[t].mem[work[t].id]
  /\ work[t].stage \notin {"look", "pop", "put"} => mem[work[t].id] = work[t].profile
  /\ \A id \in Ids : id # work[t].id => mem[id] = began[t].mem[id]

Solitary(t) ==
  /\ \A u \in Threads : Busy(u) => u = t
  /\ At(t, "encode") => work[t].size = Count(mem)
  /\ At(t, "replace") => work[t].body = mem
  /\ t \in Requests => Recorded(t)

LoneInv == \A t \in Threads : Busy(t) /\ lone[t] => Solitary(t)

\* The change asked for is all that is in the dictionary besides what was there.
LEMMA OwnChange ==
  ASSUME TypeOK, NEW t \in Requests, Recorded(t), At(t, "encode") \/ At(t, "rollback")
  PROVE  /\ mem = [began[t].mem EXCEPT ![work[t].id] = work[t].profile]
         /\ [mem EXCEPT ![work[t].id] = work[t].previous] = began[t].mem
<1>1. /\ mem \in [Ids -> Contents] /\ began[t].mem \in [Ids -> Contents]
      /\ work[t].id \in Ids
  BY TypeParts, Parameters DEF TypeOK, Shelves, Jobs
<1>2. /\ mem[work[t].id] = work[t].profile
      /\ work[t].previous = began[t].mem[work[t].id]
      /\ \A id \in Ids : id # work[t].id => mem[id] = began[t].mem[id]
  BY DEF Recorded, At
<1> QED
  BY <1>1, <1>2

LEMMA SolitaryStep ==
  ASSUME TypeOK, NEW t \in Threads, Solitary(t), Steps(t), work'[t].stage # "free"
  PROVE  Solitary(t)'
<1>0. /\ mem \in Shelves /\ work \in [Threads -> Jobs] /\ work[t] \in Jobs
      /\ work[t].id \in Ids
  BY TypeParts DEF Jobs
<1>1. \A u \in Threads : u # t => work'[u] = work[u]
  BY StepFacts
<1>2. \A u \in Threads : Busy(u)' => u = t
  BY <1>1 DEF Solitary, Busy
<1>3. began' = began
  BY StepFacts DEF ghosts
<1>4. ASSUME NEW a, Answers(t, a) PROVE FALSE
  BY <1>0, <1>4, JobTypes DEF Answers
<1>5. CASE Look(t)
  <2> DEFINE job == [work[t] EXCEPT !.stage = "put", !.previous = mem[work[t].id]]
  <2>1. job.stage = "put" /\ job.id = work[t].id /\ job.previous = mem[work[t].id]
        /\ job.profile = work[t].profile
    BY <1>0 DEF Jobs
  <2>2. work' = [work EXCEPT ![t] = job] /\ UNCHANGED <<mem, file>> /\ At(t, "look")
    BY <1>5 DEF Look, Goes
  <2> HIDE DEF job
  <2>3. work'[t] = job
    BY <1>0, <2>2
  <2> QED
    BY <1>2, <1>3, <2>1, <2>2, <2>3 DEF Solitary, Recorded, At
<1>6. CASE Put(t)
  <2> DEFINE job == [work[t] EXCEPT !.stage = "encode", !.size = Count(mem')]
  <2>1. /\ job.stage = "encode" /\ job.id = work[t].id /\ job.previous = work[t].previous
        /\ job.size = Count(mem') /\ job.profile = work[t].profile
    BY <1>0 DEF Jobs
  <2>2. /\ work' = [work EXCEPT ![t] = job] /\ UNCHANGED file /\ At(t, "put")
        /\ mem' = [mem EXCEPT ![work[t].id] = work[t].profile]
    BY <1>6 DEF Put, Goes
  <2> HIDE DEF job
  <2>3. work'[t] = job
    BY <1>0, <2>2
  <2>4. /\ mem'[work[t].id] = work[t].profile \/ t \notin Requests
        /\ \A id \in Ids : id # work[t].id => mem'[id] = mem[id]
    BY <1>0, <2>2 DEF Shelves, Solitary, Recorded
  <2>5. Count(mem)' = Count(mem')
    BY DEF Count
  <2> QED
    BY <1>2, <1>3, <2>1, <2>2, <2>3, <2>4, <2>5 DEF Solitary, Recorded, At
<1>7. CASE Pop(t)
  <2> DEFINE job == [work[t] EXCEPT !.stage = "encode", !.previous = mem[work[t].id],
                                    !.size = Count(mem')]
  <2>0. mem[work[t].id] # None
    BY <1>4, <1>7 DEF Pop
  <2>1. /\ job.stage = "encode" /\ job.id = work[t].id /\ job.previous = mem[work[t].id]
        /\ job.size = Count(mem') /\ job.profile = work[t].profile
    BY <1>0 DEF Jobs
  <2>2. /\ work' = [work EXCEPT ![t] = job] /\ UNCHANGED file /\ At(t, "pop")
        /\ mem' = [mem EXCEPT ![work[t].id] = None]
    BY <1>7, <2>0 DEF Pop, Goes
  <2> HIDE DEF job
  <2>3. work'[t] = job
    BY <1>0, <2>2
  <2>4. /\ mem'[work[t].id] = work[t].profile \/ t \notin Requests
        /\ \A id \in Ids : id # work[t].id => mem'[id] = mem[id]
    BY <1>0, <2>2 DEF Shelves, Solitary, Recorded
  <2>5. Count(mem)' = Count(mem')
    BY DEF Count
  <2> QED
    BY <1>2, <1>3, <2>1, <2>2, <2>3, <2>4, <2>5 DEF Solitary, Recorded, At
<1>8. CASE Encode(t)
  <2> DEFINE job == [work[t] EXCEPT !.stage = "replace", !.body = mem]
  <2>1. /\ job.stage = "replace" /\ job.id = work[t].id /\ job.previous = work[t].previous
        /\ job.body = mem /\ job.profile = work[t].profile
    BY <1>0 DEF Jobs
  <2>2. work' = [work EXCEPT ![t] = job] /\ UNCHANGED <<mem, file>> /\ At(t, "encode")
    BY <1>4, <1>8 DEF Encode, Goes
  <2> HIDE DEF job
  <2>3. work'[t] = job
    BY <1>0, <2>2
  <2> QED
    BY <1>2, <1>3, <2>1, <2>2, <2>3 DEF Solitary, Recorded, At
<1>9. CASE Replace(t)
  <2> DEFINE job == [work[t] EXCEPT !.stage = "rollback"]
  <2>1. job.stage = "rollback" /\ job.id = work[t].id /\ job.previous = work[t].previous
        /\ job.profile = work[t].profile
    BY <1>0 DEF Jobs
  <2>2. work' = [work EXCEPT ![t] = job] /\ UNCHANGED <<mem, file>> /\ At(t, "replace")
    BY <1>4, <1>9 DEF Replace, Goes
  <2> HIDE DEF job
  <2>3. work'[t] = job
    BY <1>0, <2>2
  <2> QED
    BY <1>2, <1>3, <2>1, <2>2, <2>3 DEF Solitary, Recorded, At
<1>10. CASE Rollback(t)
  BY <1>4, <1>10 DEF Rollback
<1> QED
  BY <1>5, <1>6, <1>7, <1>8, <1>9, <1>10 DEF Steps

LEMMA LoneStep == TypeOK /\ PhaseInv /\ LoneInv /\ [Next]_vars => LoneInv'
<1> SUFFICES ASSUME TypeOK, PhaseInv, LoneInv, [Next]_vars PROVE LoneInv'
  OBVIOUS
<1>1. ASSUME NEW r \in Requests, Asks(r) PROVE LoneInv'
  <2>1. /\ ~Busy(r) /\ UNCHANGED <<mem, file>> /\ r \in Threads /\ r # Main
        /\ \A u \in Threads : u # r => work'[u] = work[u]
        /\ work'[r].stage \in {"look", "pop"}
        /\ work'[r].stage = "pop" => mem[work'[r].id] # None /\ work'[r].profile = None
        /\ lone' = [u \in Threads |-> IF u = r THEN \A v \in Threads : ~Busy(v) ELSE FALSE]
        /\ began' = [began EXCEPT ![r] = Snapshot]
    BY <1>1, AskFacts, Parameters
  <2>2. ASSUME NEW t \in Threads, Busy(t)', lone'[t] PROVE Solitary(t)'
    <3>1. t = r /\ \A v \in Threads : ~Busy(v)
      BY <2>1, <2>2
    <3>2. \A u \in Threads : Busy(u)' => u = t
      BY <2>1, <3>1 DEF Busy
    <3>3. began'[t] = Snapshot
      BY <2>1, <3>1 DEF TypeOK
    <3>4. began'[t].mem = mem /\ began'[t].file = file
      BY <3>3 DEF Snapshot
    <3> QED
      BY <2>1, <3>1, <3>2, <3>4 DEF Solitary, Recorded, At
  <2> QED
    BY <2>2 DEF LoneInv
<1>2. ASSUME NEW t \in Threads, Steps(t) PROVE LoneInv'
  <2>1. /\ Busy(t) /\ lone' = lone
        /\ \A u \in Threads : u # t => work'[u] = work[u]
    BY <1>2, StepFacts DEF ghosts
  <2>2. ASSUME NEW u \in Threads, Busy(u)', lone'[u] PROVE Solitary(u)'
    <3>1. CASE u = t
      <4>1. Solitary(t)
        BY <2>1, <2>2, <3>1 DEF LoneInv
      <4> QED
        BY <1>2, <2>2, <3>1, <4>1, SolitaryStep DEF Busy
    <3>2. CASE u # t
      BY <2>1, <2>2, <3>2 DEF LoneInv, Solitary, Busy
    <3> QED
      BY <3>1, <3>2
  <2> QED
    BY <2>2 DEF LoneInv
<1>3. CASE Start
  <2>1. (\A r \in Requests : work[r].stage = "free") /\ ~Busy(Main)
    BY <1>3 DEF Start, PhaseInv, Busy
  <2>2. CASE phase' # "down"
    <3>1. ASSUME NEW t \in Threads, Busy(t)' PROVE Solitary(t)'
      <4>1. /\ \A r \in Requests : work'[r].stage = "free"
            /\ work'[Main].stage \in {"free", "look"}
        BY <1>3, <2>2, StartFacts
      <4>2. t = Main /\ \A u \in Threads : Busy(u)' => u = t
        BY <3>1, <4>1 DEF Busy, Threads
      <4> QED
        BY <4>1, <4>2, Parameters DEF Solitary, At
    <3> QED
      BY <3>1 DEF LoneInv
  <2>3. CASE phase' = "down"
    <3>1. work' = work
      BY <1>3, <2>3 DEF Start, Serve
    <3>2. \A t \in Threads : ~Busy(t)
      BY <2>1 DEF Busy, Threads
    <3>3. \A t \in Threads : ~Busy(t)'
      BY <3>1, <3>2 DEF Busy
    <3> QED
      BY <3>3 DEF LoneInv
  <2> QED
    BY <2>2, <2>3
<1>4. CASE Kill
  BY <1>4, JobTypes DEF Kill, LoneInv, Busy
<1>5. CASE UNCHANGED vars
  BY <1>5 DEF vars, ghosts, LoneInv, Solitary, Recorded, Busy, At, Count
<1> QED
  BY <1>1, <1>2, <1>3, <1>4, <1>5 DEF Next

LEMMA LoneAlways == Spec => [](TypeOK /\ PhaseInv /\ LoneInv)
<1>1. Init => LoneInv
  BY JobTypes DEF Init, LoneInv, Busy
<1> QED
  BY <1>1, PhaseAlways, LoneStep, PTL DEF Spec

\* A request is answered by a step of its own.
LEMMA AnsweredByStep ==
  ASSUME TypeOK, PhaseInv, [Next]_vars, NEW t \in Threads,
         Answered(t, "ok") \/ Answered(t, "error") \/ Answered(t, "raised")
  PROVE  Steps(t)
<1>1. Busy(t) /\ work'[t].stage = "free" /\ answer'[t] # answer[t]
  BY JobTypes DEF Answered, PhaseInv
<1>2. ASSUME NEW r \in Requests, Asks(r) PROVE FALSE
  BY <1>1, <1>2, AskFacts DEF Busy
<1>3. ASSUME NEW u \in Threads, Steps(u) PROVE u = t
  BY <1>1, <1>3, StepFacts DEF Busy
<1>4. CASE Start
  BY <1>1, <1>4 DEF Start, PhaseInv, Threads
<1>5. CASE Kill
  BY <1>1, <1>5 DEF Kill
<1>6. CASE UNCHANGED vars
  BY <1>1, <1>6 DEF vars
<1> QED
  BY <1>2, <1>3, <1>4, <1>5, <1>6 DEF Next

(* A change that runs alone and is answered well leaves file and           *)
(* dictionary equal, whatever was between them before.                     *)
THEOREM SaveHeals == Spec => LoneSaveHeals
<1>1. TypeOK /\ PhaseInv /\ LoneInv /\ [Next]_vars
        => \A t \in Threads : lone[t] /\ Answered(t, "ok") => file' = mem'
  <2> SUFFICES ASSUME TypeOK, PhaseInv, LoneInv, [Next]_vars,
                      NEW t \in Threads, lone[t], Answered(t, "ok")
               PROVE  file' = mem'
    OBVIOUS
  <2>1. Steps(t)
    BY AnsweredByStep
  <2>2. /\ work'[t].stage = "free" /\ answer'[t] = "ok" /\ Solitary(t)
        /\ answer \in [Threads -> {"none", "ok", "error", "raised"}] /\ answer[t] = "none"
    BY JobTypes DEF Answered, LoneInv, PhaseInv, TypeOK
  <2>3. \A job : ~Goes(t, job)
    BY <2>2 DEF Goes
  <2>4. ~Answers(t, "error") /\ ~Answers(t, "raised")
    BY <2>2 DEF Answers
  <2>5. Replace(t)
    <3>1. ~Look(t) /\ ~Put(t)
      BY <2>3 DEF Look, Put
    <3>2. ~Pop(t)
      BY <2>3, <2>4 DEF Pop
    <3>3. ~Encode(t) /\ ~Rollback(t)
      BY <2>3, <2>4 DEF Encode, Rollback
    <3> QED
      BY <2>1, <3>1, <3>2, <3>3 DEF Steps
  <2>6. file' = work[t].body /\ mem' = mem
    BY <2>3, <2>5 DEF Replace
  <2> QED
    BY <2>2, <2>5, <2>6 DEF Solitary, Replace
<1>2. TypeOK /\ PhaseInv /\ LoneInv /\ [Next]_vars
        => [\A t \in Threads : lone[t] /\ Answered(t, "ok") => file' = mem']_vars
  BY <1>1
<1> QED
  BY <1>2, LoneAlways, PTL DEF Spec, LoneSaveHeals

(* A change that runs alone and fails with the CatalogError leaves file    *)
(* and dictionary as it found them.  It can fail otherwise only where the  *)
(* directory of the file cannot be made; then its own change stays in the  *)
(* dictionary, and the file is as it was.                                  *)
Contained(t) ==
  /\ Answered(t, "error") => mem' = began[t].mem /\ file' = began[t].file
  /\ Answered(t, "raised") =>
       /\ "directory" \in Failures /\ file' = began[t].file
       /\ mem' = [began[t].mem EXCEPT ![work[t].id] = work[t].profile]

THEOREM FailureContained == Spec => LoneFailureContained
<1>1. TypeOK /\ PhaseInv /\ LoneInv /\ [Next]_vars
        => \A t \in Requests : lone[t] => Contained(t)
  <2> SUFFICES ASSUME TypeOK, PhaseInv, LoneInv, [Next]_vars,
                      NEW t \in Requests, lone[t], Answered(t, "error") \/ Answered(t, "raised")
               PROVE  Contained(t)
    BY DEF Contained
  <2>0. t \in Threads
    BY Parameters
  <2>1. Steps(t)
    BY <2>0, AnsweredByStep
  <2>2. /\ work'[t].stage = "free" /\ answer'[t] # "ok" /\ Solitary(t) /\ Recorded(t)
        /\ answer \in [Threads -> {"none", "ok", "error", "raised"}] /\ answer[t] = "none"
    BY <2>0, JobTypes DEF Answered, LoneInv, PhaseInv, TypeOK, Solitary
  <2>3. (\A job : ~Goes(t, job)) /\ ~Answers(t, "ok")
    <3>1. answer'[t] # answer[t]
      BY <2>2 DEF Answered
    <3> QED
      BY <2>0, <2>2, <3>1 DEF Goes, Answers
  <2>4. ~Look(t) /\ ~Put(t) /\ ~Pop(t) /\ ~Replace(t)
    BY <2>2, <2>3 DEF Look, Put, Pop, Replace, Recorded
  <2>5. ASSUME NEW a, Answers(t, a) PROVE answer'[t] = a
    BY <2>0, <2>2, <2>5 DEF Answers
  <2>6. CASE Rollback(t)
    <3>1. mem' = [mem EXCEPT ![work[t].id] = work[t].previous] /\ UNCHANGED file /\ At(t, "rollback")
      BY <2>6 DEF Rollback
    <3>2. mem' = began[t].mem /\ file' = began[t].file
      BY <2>2, <3>1, OwnChange DEF Recorded
    <3>3. ~Answered(t, "raised")
      BY <2>5, <2>6 DEF Rollback, Answered
    <3> QED
      BY <3>2, <3>3 DEF Contained
  <2>7. CASE Encode(t)
    <3>1. UNCHANGED <<mem, file>> /\ At(t, "encode") /\ Count(mem) = work[t].size
      BY <2>2, <2>7 DEF Encode, Solitary
    <3>2. "directory" \in Failures /\ Answers(t, "raised")
      BY <2>3, <2>7, <3>1 DEF Encode
    <3>3. /\ file' = began[t].file
          /\ mem' = [began[t].mem EXCEPT ![work[t].id] = work[t].profile]
      BY <2>2, <3>1, OwnChange DEF Recorded
    <3>4. ~Answered(t, "error")
      BY <2>5, <3>2 DEF Answered
    <3> QED
      BY <3>2, <3>3, <3>4 DEF Contained
  <2> QED
    BY <2>1, <2>4, <2>6, <2>7 DEF Steps
<1>2. TypeOK /\ PhaseInv /\ LoneInv /\ [Next]_vars
        => [\A t \in Requests : lone[t] => Contained(t)]_vars
  BY <1>1
<1> QED
  BY <1>2, LoneAlways, PTL DEF Spec, LoneFailureContained, Contained

----------------------------------------------------------------------------
(* As long as no two changes have overlapped, the catalog is a Shelf.      *)

ShelfInv ==
  alone =>
    /\ seen.file = file
    /\ phase # "down" => seen.mem = mem /\ (~Writing => seen.base = mem)
    /\ \A t \in Threads : Busy(t) => lone[t]
    /\ \A r \in Requests : Busy(r) => began[r].mem = seen.base

\* What a change that is alone does to dictionary and file, as Observe sees it.
Moves ==
  \/ UNCHANGED <<mem, file>> /\ (Writing' => Writing)
  \/ UNCHANGED <<mem, file>> /\ ~Writing /\ mem = seen.base
  \/ /\ ~Writing /\ Writing' /\ file' = file
     /\ \E id \in Ids, c \in Contents : mem' = [mem EXCEPT ![id] = c]
  \/ ~Writing' /\ file' = mem /\ mem' = mem
  \/ ~Writing' /\ mem' = seen.base /\ file' = file
  \/ phase' = "down" /\ file' = file

LEMMA AloneMoves ==
  ASSUME TypeOK, PhaseInv, LoneInv, ShelfInv, alone, NEW t \in Threads, Steps(t)
  PROVE  Moves
<1>0. /\ mem \in Shelves /\ file \in Shelves /\ work \in [Threads -> Jobs] /\ work[t] \in Jobs
      /\ work[t].id \in Ids /\ work[t].profile \in Contents /\ work[t].previous \in Contents
  BY TypeParts DEF Jobs
<1>1. Busy(t) /\ phase # "down" /\ Solitary(t)
  BY StepFacts, Parameters DEF ShelfInv, LoneInv, PhaseInv, Threads
<1>2. work[t].stage \in {"look", "put", "pop"} => ~Writing
  BY <1>1 DEF Solitary, Busy, Writing
<1>3. ASSUME NEW stage \in {"encode", "replace", "rollback"}
      PROVE  (work[t].stage = stage => Writing) /\ (work'[t].stage = stage => Writing')
  BY DEF Writing
<1>a. ~Busy(t)' => ~Writing'
  <2>1. \A u \in Threads : u # t => work'[u] = work[u]
    BY StepFacts
  <2> QED
    BY <1>1, <2>1 DEF Writing, Solitary, Busy
<1>b. ASSUME NEW a, Answers(t, a) PROVE ~Writing'
  <2>1. work'[t].stage = "free"
    BY <1>0, <1>b, JobTypes DEF Answers
  <2> QED
    BY <1>a, <2>1 DEF Busy
<1>4. CASE Look(t)
  BY <1>1, <1>2, <1>4 DEF Look, At, Moves, ShelfInv
<1>5. CASE Put(t)
  <2> DEFINE job == [work[t] EXCEPT !.stage = "encode", !.size = Count(mem')]
  <2>1. job.stage = "encode"
    BY <1>0 DEF Jobs
  <2>2. /\ work' = [work EXCEPT ![t] = job] /\ UNCHANGED file /\ ~Writing
        /\ mem' = [mem EXCEPT ![work[t].id] = work[t].profile]
    BY <1>2, <1>5 DEF Put, Goes, At
  <2> HIDE DEF job
  <2>3. work'[t] = job
    BY <1>0, <2>2
  <2> QED
    BY <1>0, <1>3, <2>1, <2>2, <2>3 DEF Moves
<1>6. CASE Pop(t)
  <2>1. CASE mem[work[t].id] = None
    BY <1>b, <1>6, <2>1 DEF Pop, Moves
  <2>2. CASE mem[work[t].id] # None
    <3> DEFINE job == [work[t] EXCEPT !.stage = "encode", !.previous = mem[work[t].id],
                                      !.size = Count(mem')]
    <3>1. job.stage = "encode"
      BY <1>0 DEF Jobs
    <3>2. /\ work' = [work EXCEPT ![t] = job] /\ UNCHANGED file /\ ~Writing
          /\ mem' = [mem EXCEPT ![work[t].id] = None]
      BY <1>2, <1>6, <2>2 DEF Pop, Goes, At
    <3> HIDE DEF job
    <3>3. work'[t] = job
      BY <1>0, <3>2
    <3> QED
      BY <1>0, <1>3, <3>1, <3>2, <3>3, Parameters DEF Moves
  <2> QED
    BY <2>1, <2>2
<1>7. CASE Encode(t)
  <2>1. UNCHANGED <<mem, file>> /\ work[t].stage = "encode"
    BY <1>7 DEF Encode, At
  <2> QED
    BY <1>3, <2>1 DEF Moves
<1>8. CASE Replace(t)
  <2>1. CASE file' = work[t].body /\ Answers(t, "ok")
    BY <1>1, <1>b, <1>8, <2>1 DEF Replace, Solitary, Moves
  <2>2. CASE UNCHANGED file
    <3>1. UNCHANGED <<mem, file>> /\ work[t].stage = "replace"
      BY <1>8, <2>2 DEF Replace, At
    <3> QED
      BY <1>3, <3>1 DEF Moves
  <2> QED
    BY <1>8, <2>1, <2>2 DEF Replace
<1>9. CASE Rollback(t)
  <2>1. /\ mem' = [mem EXCEPT ![work[t].id] = work[t].previous] /\ UNCHANGED file
        /\ At(t, "rollback") /\ ~Writing'
    BY <1>b, <1>9 DEF Rollback
  <2>2. CASE t = Main
    BY <1>9, <2>1, <2>2 DEF Rollback, Answers, Moves
  <2>3. CASE t # Main
    <3>1. t \in Requests /\ began[t].mem = seen.base
      BY <1>1, <2>3 DEF Threads, ShelfInv
    <3>2. Recorded(t)
      BY <1>1, <3>1 DEF Solitary
    <3>3. mem' = seen.base
      BY <2>1, <3>1, <3>2, OwnChange
    <3> QED
      BY <2>1, <3>3 DEF Moves
  <2> QED
    BY <2>2, <2>3
<1> QED
  BY <1>4, <1>5, <1>6, <1>7, <1>8, <1>9 DEF Steps

\* A change that goes on has nothing else served behind it.
LEMMA BusyBase ==
  ASSUME TypeOK, PhaseInv, NEW t \in Threads, Steps(t), Busy(t)',
         ~Writing => seen.base = mem,
         Writing' => seen'.base = seen.base, ~Writing' => seen'.base = mem'
  PROVE  seen'.base = seen.base
<1>0. work \in [Threads -> Jobs] /\ work[t] \in Jobs
  BY TypeParts
<1>1. SUFFICES ASSUME ~Writing' PROVE mem' = mem /\ ~Writing
  OBVIOUS
<1>2. work'[t].stage \notin {"encode", "replace", "rollback", "free"}
  BY <1>1 DEF Writing, Busy
<1>3. Look(t)
  <2>1. ASSUME NEW a PROVE ~Answers(t, a)
    BY <1>0, <1>2, JobTypes DEF Answers
  <2>2. ASSUME NEW job, Goes(t, job) PROVE job.stage \notin {"encode", "replace", "rollback"}
    BY <1>0, <1>2, <2>2 DEF Goes
  <2>3. ~Put(t)
    <3>1. [work[t] EXCEPT !.stage = "encode", !.size = Count(mem')].stage = "encode"
      BY <1>0 DEF Jobs
    <3> QED
      BY <2>2, <3>1 DEF Put
  <2>4. ~Pop(t)
    <3>1. [work[t] EXCEPT !.stage = "encode", !.previous = mem[work[t].id],
                          !.size = Count(mem')].stage = "encode"
      BY <1>0 DEF Jobs
    <3> QED
      BY <2>1, <2>2, <3>1 DEF Pop
  <2>5. ~Encode(t)
    <3>1. [work[t] EXCEPT !.stage = "replace", !.body = mem].stage = "replace"
      BY <1>0 DEF Jobs
    <3> QED
      BY <2>1, <2>2, <3>1 DEF Encode
  <2>6. ~Replace(t)
    <3>1. [work[t] EXCEPT !.stage = "rollback"].stage = "rollback"
      BY <1>0 DEF Jobs
    <3> QED
      BY <2>1, <2>2, <3>1 DEF Replace
  <2>7. ~Rollback(t)
    BY <2>1 DEF Rollback
  <2> QED
    BY <2>3, <2>4, <2>5, <2>6, <2>7 DEF Steps
<1>4. UNCHANGED mem /\ \A u \in Threads : u # t => work'[u] = work[u]
  BY <1>3, StepFacts DEF Look
<1> QED
  BY <1>1, <1>3, <1>4 DEF Writing, Look, At

\* One step keeps ShelfInv and is a step of Shelf, or none.
LEMMA ShelfStep ==
  ASSUME TypeOK, PhaseInv, LoneInv, ShelfInv, [Next]_vars
  PROVE  ShelfInv' /\ [Durable!ShelfNext]_<<seen.file, seen.mem, seen.base>>
<1>0. CASE UNCHANGED vars
  BY <1>0 DEF vars, ghosts, ShelfInv, Writing, Busy
<1> SUFFICES ASSUME Next PROVE ShelfInv' /\ [Durable!ShelfNext]_<<seen.file, seen.mem, seen.base>>
  BY <1>0
<1>1. Observe
  BY DEF Next
<1>2. CASE ~alone' \/ phase' = "down"
  <2>1. seen' = seen
    BY <1>1, <1>2 DEF Observe
  <2>2. CASE ~alone'
    BY <2>1, <2>2 DEF ShelfInv
  <2>3. CASE alone' /\ phase' = "down"
    <3>1. ASSUME NEW r \in Requests, Asks(r) PROVE FALSE
      BY <2>3, <3>1, AskFacts
    <3>2. ASSUME NEW t \in Threads, Steps(t) PROVE ShelfInv'
      <4>1. /\ alone /\ UNCHANGED ghosts /\ t = Main /\ work'[t] = Free /\ answer'[t] # "ok"
            /\ \A u \in Threads : u # t => work'[u] = work[u]
        BY <2>3, <3>2, StepFacts, Parameters DEF PhaseInv, Threads, ghosts
      <4>2. file' = file
        <5>1. ~Answers(t, "ok")
          BY <4>1 DEF Answers, TypeOK
        <5> QED
          BY <3>2, <5>1 DEF Steps, Look, Put, Pop, Encode, Replace, Rollback
      <4>3. \A u \in Threads : ~Busy(u)'
        BY <3>2, <4>1, StepFacts, JobTypes DEF PhaseInv, Busy, Threads
      <4> QED
        BY <2>1, <2>3, <4>1, <4>2, <4>3, Parameters DEF ShelfInv
    <3>3. CASE Start
      BY <2>1, <2>3, <3>3 DEF Start, Serve, ShelfInv, Busy
    <3>4. CASE Kill
      BY <2>1, <2>3, <3>4, JobTypes, Parameters DEF Kill, ghosts, ShelfInv, Busy
    <3> QED
      BY <2>1, <3>1, <3>2, <3>3, <3>4 DEF Next
  <2> QED
    BY <1>2, <2>1, <2>2, <2>3
<1>3. CASE alone' /\ phase' # "down"
  <2>1. /\ seen' = [mem |-> mem', file |-> file', base |-> IF Writing' THEN seen.base ELSE mem']
        /\ alone
    <3>1. ASSUME NEW r \in Requests, Asks(r) PROVE alone
      BY <1>3, <3>1, AskFacts
    <3>2. ASSUME NEW t \in Threads, Steps(t) PROVE alone
      BY <1>3, <3>2, StepFacts DEF ghosts
    <3>3. Start => alone
      BY <1>3, StartFacts
    <3>4. ~Kill
      BY <1>3 DEF Kill
    <3> QED
      BY <1>1, <1>3, <3>1, <3>2, <3>3, <3>4 DEF Observe, Next
  <2>2. /\ seen'.mem = mem' /\ seen'.file = file' /\ seen.file = file
        /\ Writing' => seen'.base = seen.base
        /\ ~Writing' => seen'.base = mem'
    BY <2>1 DEF ShelfInv
  <2>3. ASSUME NEW r \in Requests, Asks(r)
        PROVE  ShelfInv' /\ [Durable!ShelfNext]_<<seen.file, seen.mem, seen.base>>
    <3>1. /\ phase = "up" /\ UNCHANGED <<mem, file>> /\ (\A v \in Threads : ~Busy(v))
          /\ \A u \in Threads : u # r => work'[u] = work[u]
          /\ work'[r].stage \in {"look", "pop"} /\ r \in Threads
          /\ began' = [began EXCEPT ![r] = Snapshot]
          /\ lone' = [u \in Threads |-> IF u = r THEN \A v \in Threads : ~Busy(v) ELSE FALSE]
      BY <1>3, <2>3, AskFacts, Parameters
    <3>2. ~Writing /\ ~Writing'
      BY <3>1 DEF Writing, Busy
    <3>3. seen.base = mem /\ seen.mem = mem
      BY <2>1, <3>1, <3>2 DEF ShelfInv
    <3>4. \A u \in Threads : Busy(u)' => u = r /\ lone'[u]
      BY <3>1 DEF Busy
    <3>5. began'[r] = Snapshot
      BY <3>1 DEF TypeOK
    <3>6. began'[r].mem = seen'.base
      BY <2>2, <3>1, <3>2, <3>5 DEF Snapshot
    <3>7. ShelfInv'
      BY <2>2, <3>1, <3>2, <3>4, <3>6, Parameters DEF ShelfInv
    <3> QED
      BY <2>2, <3>1, <3>2, <3>3, <3>7
  <2>4. ASSUME NEW t \in Threads, Steps(t)
        PROVE  ShelfInv' /\ [Durable!ShelfNext]_<<seen.file, seen.mem, seen.base>>
    <3>1. Moves
      BY <2>1, <2>4, AloneMoves
    <3>2. Busy(t) /\ UNCHANGED ghosts /\ phase # "down"
          /\ \A u \in Threads : u # t => work'[u] = work[u]
      BY <2>4, StepFacts, Parameters DEF PhaseInv, Threads
    <3>3. seen.mem = mem /\ (~Writing => seen.base = mem)
      BY <2>1, <3>2 DEF ShelfInv
    <3>4. \A u \in Threads : Busy(u)' => Busy(u) /\ u = t
      <4>1. Solitary(t)
        BY <2>1, <3>2 DEF ShelfInv, LoneInv
      <4> QED
        BY <3>2, <4>1 DEF Busy, Solitary
    <3>5. Busy(t)' => seen'.base = seen.base
      BY <2>1, <2>2, <2>4, <3>2, <3>3, BusyBase
    <3>6. ShelfInv'
      BY <1>3, <2>1, <2>2, <3>2, <3>4, <3>5, Parameters DEF ShelfInv, ghosts
    <3>7. [Durable!ShelfNext]_<<seen.file, seen.mem, seen.base>>
      BY <1>3, <2>2, <3>1, <3>3
         DEF Moves, Durable!ShelfNext, Durable!Change, Durable!Commit, Durable!TakeBack,
             Durable!Leave
    <3> QED
      BY <3>6, <3>7
  <2>5. CASE Start
    <3>1. /\ mem' = file /\ file' = file
          /\ \A r \in Requests : work'[r].stage = "free"
          /\ Busy(Main)' => lone'[Main]
      BY <1>3, <2>5, StartFacts DEF Busy
    <3>2. \A t \in Threads : Busy(t)' => lone'[t]
      BY <3>1 DEF Busy, Threads
    <3>3. ~Writing' /\ \A r \in Requests : ~Busy(r)'
      BY <1>3, <2>5, StartFacts DEF Writing, Busy, Threads
    <3>4. ShelfInv'
      BY <2>2, <3>1, <3>2, <3>3 DEF ShelfInv
    <3> QED
      BY <2>2, <3>1, <3>3, <3>4 DEF Durable!ShelfNext, Durable!Reload
  <2>6. ~Kill
    BY <1>3 DEF Kill
  <2> QED
    BY <2>3, <2>4, <2>5, <2>6 DEF Next
<1> QED
  BY <1>2, <1>3

(* The catalog implements Shelf: with changes one at a time, what is kept  *)
(* across restarts is what was served after the last change that was       *)
(* written whole, wherever the service is killed or a write fails.         *)
THEOREM CatalogImplements == Spec => ImplementsShelf
<1>1. Init => ShelfInv /\ Durable!ShelfInit
  <2> SUFFICES ASSUME Init PROVE ShelfInv /\ Durable!ShelfInit
    OBVIOUS
  <2>1. seen.file = Empty /\ seen.mem = Empty /\ seen.base = Empty /\ file = Empty /\ phase = "down"
    BY DEF Init
  <2>2. \A t \in Threads : ~Busy(t)
    BY JobTypes DEF Init, Busy
  <2> QED
    BY <2>1, <2>2, Parameters DEF ShelfInv, Durable!ShelfInit, Shelves
<1>2. TypeOK /\ PhaseInv /\ LoneInv /\ ShelfInv /\ [Next]_vars
        => ShelfInv' /\ [Durable!ShelfNext]_<<seen.file, seen.mem, seen.base>>
  BY ShelfStep
<1> QED
  BY <1>1, <1>2, LoneAlways, PTL DEF Spec, ImplementsShelf, Durable!ShelfSpec
=============================================================================
