------------------------------ MODULE Catalog -------------------------------
(***************************************************************************)
(* The profile catalog of the proxy: catalog.py, the routes of app.py that *)
(* change it, and the seeding at startup (config.py).  The routes are not  *)
(* async, so each request runs on a thread of its own over one dictionary  *)
(* and one file; there is no lock.                                         *)
(*                                                                         *)
(* A request is cut where threads may be switched between two of its steps *)
(* that matter: the check, the look at the previous entry, the change of   *)
(* the dictionary, the encoding of all of it, the replacement of the file  *)
(* and the rollback.  A shelf maps ids to profiles; its order is left out. *)
(***************************************************************************)
EXTENDS Integers, FiniteSets

CONSTANTS
  Ids,          \* profile ids
  Profiles,     \* what a profile may hold, besides its id
  None,         \* no such profile
  DefaultId,    \* DEFAULT_PROFILE
  Default,
  Requests,     \* threads of the pool
  Main,         \* the thread that creates the app
  Failures,     \* of the machine: "directory", that of the file cannot be made
  MaxRequests,  \* bound: changes asked for
  MaxStarts     \* bound: starts of the service

ASSUME CatalogAssumption ==
  /\ IsFiniteSet(Ids) /\ DefaultId \in Ids /\ Default \in Profiles
  /\ None \notin Profiles /\ Main \notin Requests
  /\ Failures \subseteq {"directory"}
  /\ MaxRequests \in Nat /\ MaxStarts \in Nat

Threads  == Requests \cup {Main}
Contents == Profiles \cup {None}
Shelves  == [Ids -> Contents]
Empty    == [id \in Ids |-> None]

VARIABLES
  phase,    \* "down", "seed" (create_app writes the default) or "up"
  mem,      \* Catalog._profiles
  file,     \* profiles.json
  work,     \* what each thread is doing
  answer,   \* how the last request of each thread was answered
  requests, starts,
  lone,     \* history: the thread's request has been the only one
  began,    \* history: dictionary and file when it came
  loaded,   \* history: what the file held at the start
  touched,  \* history: ids asked to change since the start
  alone,    \* history: no two changes have ever overlapped
  seen      \* history: dictionary, file, and the dictionary before the change being
            \* written, while it is up and as long as that was so

counters == <<requests, starts>>
ghosts   == <<lone, began, loaded, touched, alone>>
vars     == <<phase, mem, file, work, answer, counters, ghosts, seen>>

Stages == {"free", "look", "put", "pop", "encode", "replace", "rollback"}

Job(stage, id, profile) ==
  [stage |-> stage, id |-> id, profile |-> profile, previous |-> None,
   size |-> 0, body |-> Empty]

Free == Job("free", DefaultId, None)

Snapshot == [mem |-> mem, file |-> file]
Sights   == [mem : Shelves, file : Shelves, base : Shelves]
Count(shelf) == Cardinality({id \in Ids : shelf[id] # None})
Busy(t) == work[t].stage # "free"

TypeOK ==
  /\ phase \in {"down", "seed", "up"} /\ mem \in Shelves /\ file \in Shelves
  /\ work \in [Threads -> [stage : Stages, id : Ids, profile : Contents,
                           previous : Contents, size : Nat, body : Shelves]]
  /\ answer \in [Threads -> {"none", "ok", "error", "raised"}]
  /\ requests \in 0..MaxRequests /\ starts \in 0..MaxStarts
  /\ lone \in [Threads -> BOOLEAN] /\ began \in [Threads -> [mem : Shelves, file : Shelves]]
  /\ loaded \in Shelves /\ touched \subseteq Ids /\ alone \in BOOLEAN /\ seen \in Sights

Init ==
  /\ phase = "down" /\ mem = Empty /\ file = Empty
  /\ work = [t \in Threads |-> Free] /\ answer = [t \in Threads |-> "none"]
  /\ requests = 0 /\ starts = 0
  /\ lone = [t \in Threads |-> FALSE] /\ began = [t \in Threads |-> Snapshot]
  /\ loaded = Empty /\ touched = {} /\ alone = TRUE
  /\ seen = [mem |-> mem, file |-> file, base |-> mem]

----------------------------------------------------------------------------
(* The steps of a request                                                  *)

Take(t, job) ==
  /\ work' = [work EXCEPT ![t] = job]
  /\ answer' = [answer EXCEPT ![t] = "none"]
  /\ lone' = [u \in Threads |-> IF u = t THEN \A v \in Threads : ~Busy(v) ELSE FALSE]
  /\ alone' = (alone /\ \A v \in Threads : ~Busy(v))

Accept(r, job) ==
  /\ phase = "up" /\ ~Busy(r) /\ requests < MaxRequests
  /\ Take(r, job) /\ requests' = requests + 1
  /\ began' = [began EXCEPT ![r] = Snapshot] /\ touched' = touched \cup {job.id}
  /\ UNCHANGED <<phase, mem, file, starts, loaded>>

\* create_profile, patch_profile and delete; else 409 or 404, and nothing changes.
Create(r, id, profile) == mem[id] = None /\ Accept(r, Job("look", id, profile))
Patch(r, id, profile)  == mem[id] # None /\ Accept(r, Job("look", id, profile))
Delete(r, id)          == mem[id] # None /\ Accept(r, Job("pop", id, None))

At(t, stage) == work[t].stage = stage

Goes(t, job) ==
  work' = [work EXCEPT ![t] = job] /\ UNCHANGED <<phase, answer, counters, ghosts>>

(***************************************************************************)
(* The request is answered: well, with the CatalogError that upsert and    *)
(* delete catch and raise again, or with another exception, which they do  *)
(* not catch.  create_app goes on to serve, or gives up.                   *)
(***************************************************************************)
Answers(t, a) ==
  /\ work' = [work EXCEPT ![t] = Free] /\ answer' = [answer EXCEPT ![t] = a]
  /\ phase' = IF t # Main THEN phase ELSE IF a = "ok" THEN "up" ELSE "down"
  /\ UNCHANGED <<counters, ghosts>>

\* upsert
Look(t) ==
  /\ At(t, "look")
  /\ Goes(t, [work[t] EXCEPT !.stage = "put", !.previous = mem[work[t].id]])
  /\ UNCHANGED <<mem, file>>

Put(t) ==
  /\ At(t, "put")
  /\ mem' = [mem EXCEPT ![work[t].id] = work[t].profile]
  /\ Goes(t, [work[t] EXCEPT !.stage = "encode", !.size = Count(mem')])
  /\ UNCHANGED file

\* Mutant: the entry that goes is subtracted a second time.
PopCountsTwice(t) ==
  /\ At(t, "pop") /\ UNCHANGED file
  /\ LET id == work[t].id IN
     IF mem[id] = None THEN Answers(t, "raised") /\ UNCHANGED mem
     ELSE /\ mem' = [mem EXCEPT ![id] = None]
          /\ Goes(t, [work[t] EXCEPT !.stage = "encode", !.previous = mem[id],
                                     !.size = Count(mem') - 1])

\* delete; a profile that has gone since it was looked at is a KeyError.
Pop(t) ==
  /\ At(t, "pop") /\ UNCHANGED file
  /\ LET id == work[t].id IN
     IF mem[id] = None THEN Answers(t, "raised") /\ UNCHANGED mem
     ELSE /\ mem' = [mem EXCEPT ![id] = None]
          /\ Goes(t, [work[t] EXCEPT !.stage = "encode", !.previous = mem[id],
                                     !.size = Count(mem')])

\* Mutant: only the profile that was changed is written.
EncodeOwn(t) ==
  /\ At(t, "encode") /\ UNCHANGED <<mem, file>>
  /\ \/ Goes(t, [work[t] EXCEPT !.stage = "replace",
                                !.body = [Empty EXCEPT ![work[t].id] = mem[work[t].id]]])
     \/ Count(mem) # work[t].size /\ Answers(t, "raised")
     \/ "directory" \in Failures /\ Answers(t, "raised")

(***************************************************************************)
(* _save, up to os.replace.  A dictionary whose size changes while it is   *)
(* iterated raises RuntimeError; the directory is made before the try, and *)
(* its OSError stays one.  Neither upsert nor delete catches these.        *)
(***************************************************************************)
Encode(t) ==
  /\ At(t, "encode") /\ UNCHANGED <<mem, file>>
  /\ \/ Goes(t, [work[t] EXCEPT !.stage = "replace", !.body = mem])
     \/ Count(mem) # work[t].size /\ Answers(t, "raised")
     \/ "directory" \in Failures /\ Answers(t, "raised")

\* Mutant: the error of the write does not reach the caller.
ReplaceQuietly(t) ==
  /\ At(t, "replace") /\ UNCHANGED mem
  /\ file' \in {work[t].body, file} /\ Answers(t, "ok")

\* The temporary file takes the place of the old one, or an OSError.
Replace(t) ==
  /\ At(t, "replace") /\ UNCHANGED mem
  /\ \/ file' = work[t].body /\ Answers(t, "ok")
     \/ UNCHANGED file /\ Goes(t, [work[t] EXCEPT !.stage = "rollback"])

\* Mutant: what was put is taken out, whatever was there before.
RollbackPops(t) ==
  /\ At(t, "rollback") /\ UNCHANGED file
  /\ mem' = [mem EXCEPT ![work[t].id] = None] /\ Answers(t, "error")

\* except CatalogError
Rollback(t) ==
  /\ At(t, "rollback") /\ UNCHANGED file
  /\ mem' = [mem EXCEPT ![work[t].id] = work[t].previous] /\ Answers(t, "error")

----------------------------------------------------------------------------
(* The service                                                             *)

\* load_settings, with what _load found.
Serve(found) ==
  /\ mem' = found /\ loaded' = found
  /\ IF found = Empty
       THEN /\ phase' = "seed" /\ touched' = {DefaultId}
            /\ Take(Main, Job("look", DefaultId, Default))
       ELSE phase' = "up" /\ touched' = {} /\ UNCHANGED <<work, answer, lone, alone>>

\* Mutant: a file that cannot be read counts as no file.
StartForgiving ==
  /\ phase = "down" /\ starts < MaxStarts /\ starts' = starts + 1
  /\ Serve(file) \/ Serve(Empty)
  /\ UNCHANGED <<file, requests, began>>

\* The file may not be readable; then the service does not come up.
Start ==
  /\ phase = "down" /\ starts < MaxStarts /\ starts' = starts + 1
  /\ Serve(file) \/ UNCHANGED <<phase, mem, work, answer, lone, alone, loaded, touched>>
  /\ UNCHANGED <<file, requests, began>>

Kill ==
  /\ phase # "down" /\ phase' = "down" /\ mem' = Empty
  /\ work' = [t \in Threads |-> Free]
  /\ UNCHANGED <<file, answer, counters, ghosts>>

Steps(t) == Look(t) \/ Put(t) \/ Pop(t) \/ Encode(t) \/ Replace(t) \/ Rollback(t)

Asks(r) ==
  \E id \in Ids : Delete(r, id) \/ \E p \in Profiles : Create(r, id, p) \/ Patch(r, id, p)

Writing == \E t \in Threads : work[t].stage \in {"encode", "replace", "rollback"}

Observe ==
  seen' = IF alone' /\ phase' # "down"
            THEN [mem |-> mem', file |-> file', base |-> IF Writing' THEN seen.base ELSE mem']
            ELSE seen

Next ==
  /\ \/ \E r \in Requests : Asks(r)
     \/ \E t \in Threads : Steps(t)
     \/ Start \/ Kill
  /\ Observe

Spec == Init /\ [][Next]_vars

----------------------------------------------------------------------------
Answered(t, a) == Busy(t) /\ work'[t] = Free /\ answer'[t] = a

(* Requests for one profile never change another, in the dictionary or in  *)
(* the file, however they overlap, fail and are cut off, though each       *)
(* writes the whole catalog.                                               *)
OthersUntouched ==
  phase # "down" =>
    \A id \in Ids \ touched : mem[id] = loaded[id] /\ file[id] = loaded[id]

(* Whatever earlier requests that overlapped left behind, one that runs    *)
(* alone and is answered well leaves the file equal to the dictionary.     *)
LoneSaveHeals ==
  [][ \A t \in Threads : lone[t] /\ Answered(t, "ok") => file' = mem' ]_vars

(* "Roll back in-memory so a failed write doesn't leak partial state": a   *)
(* request that runs alone and fails with the CatalogError leaves the      *)
(* catalog as it found it.  The directory that cannot be made is the only  *)
(* other way for it to fail: then the change asked for stays, in the       *)
(* dictionary alone, and nothing but that change.                          *)
LoneFailureContained ==
  [][ \A t \in Requests : lone[t] =>
        /\ Answered(t, "error") => mem' = began[t].mem /\ file' = began[t].file
        /\ Answered(t, "raised") =>
             /\ "directory" \in Failures /\ file' = began[t].file
             /\ mem' = [began[t].mem EXCEPT ![work[t].id] = work[t].profile] ]_vars

(* Requests that never overlap see a shelf: what survives a restart is the *)
(* last change that was written whole, and what is served goes back whole  *)
(* when a write fails, except as above.                                    *)
Durable == INSTANCE Shelf WITH kept <- seen.file, served <- seen.mem, base <- seen.base

ImplementsShelf == Durable!ShelfSpec
=============================================================================
