---------------------------- MODULE ProjectFiles ----------------------------
(***************************************************************************)
(* projecttool: Generate and Build replace files of a project while other  *)
(* programs may write the same files and the process may die.  Calls on    *)
(* one root take turns through a reference-counted gate.  A call prepares  *)
(* sibling files, looks once more at what it is about to replace, renames, *)
(* and undoes its renames when a later step fails.                         *)
(*                                                                         *)
(* A file is its content: what a Definition renders (or compiles) to, what *)
(* another program wrote, or nothing.  Cancellation and every I/O error    *)
(* before the first rename have one effect, Fail.  A failing call to the   *)
(* file system changes nothing.                                            *)
(***************************************************************************)
EXTENDS Naturals, Sequences, FiniteSets

CONSTANTS
    Generates, Builds,      \* calls of Generate and of Build
    Definitions,            \* the Definitions that may be supplied
    Earlier,                \* those whose output may be found in the project
    Artifacts,              \* the paths of the generated artifacts, in order
    Output,                 \* the path of the built binary
    Other,                  \* what another program writes
    Absent,                 \* there is no such file
    None,                   \* no gate, no holder
    MaxForeign              \* bound on the writes of other programs

Ops == Generates \cup Builds
Generated == {Artifacts[i] : i \in 1..Len(Artifacts)}
Paths == Generated \cup {Output}
Contents == Definitions \cup {Other, Absent}

ASSUME ProjectAssumption ==
    /\ IsFiniteSet(Ops) /\ Generates \cap Builds = {} /\ Output \notin Generated
    /\ Absent # Other /\ {Absent, Other} \cap Definitions = {}
    /\ Earlier \subseteq Definitions /\ None \notin Ops /\ MaxForeign \in Nat /\ Len(Artifacts) > 0

VARIABLES
    files,                  \* the live files of the project
    scratch,                \* temporaries, backups and staging directories
    entry,                  \* projectRootGates.entries: the gate of this root
    refs, holder,           \* a gate's references and its semaphore
    gate,                   \* the gate a call has looked up; it bears its creator's name
    pc, at,                 \* where a call is, and in which turn of its loop
    def,                    \* the Definition supplied to a call
    base,                   \* the baseline a call has read
    result,                 \* what a call returns
    spoiled,                \* the calls that could not undo or remove something
    began, touched,         \* history: the files when a call took the root,
                            \*   and those other programs wrote since
    unseen,                 \* history: the files written since a call looked at them
    writes                  \* how often other programs wrote

gates == <<entry, refs, holder, gate>>
history == <<began, touched, unseen, writes>>
vars == <<files, scratch, gates, pc, at, def, base, result, spoiled, history>>

Waiting == {"wait", "unref"}
Cancelable == {"baseline", "prepare", "recheck", "drift", "target", "stage", "compile",
               "redrift", "match", "copy", "closeStaging", "backup", "rematch"}
Holding == Cancelable \cup {"install", "settle", "rollback", "cleanup", "leave"}
Sibling(o, p, kind) == [op |-> o, path |-> p, kind |-> kind]

TypeOK ==
    /\ files \in [Paths -> Contents]
    /\ scratch \subseteq [op : Ops, path : Paths, kind : {"temporary", "backup", "staging"}]
    /\ entry \in Ops \cup {None} /\ gate \in [Ops -> Ops \cup {None}]
    /\ refs \in [Ops -> 0..Cardinality(Ops)] /\ holder \in [Ops -> Ops \cup {None}]
    /\ pc \in [Ops -> {"idle", "done", "dead"} \cup Waiting \cup Holding]
    /\ at \in [Ops -> 0..Len(Artifacts)]
    /\ def \in [Ops -> Definitions \cup {None}]
    /\ base \in [Ops -> [Paths -> Contents]] /\ began \in [Ops -> [Paths -> Contents]]
    /\ result \in [Ops -> {"none", "ok", "error"}] /\ spoiled \subseteq Ops
    /\ touched \in [Ops -> SUBSET Paths] /\ unseen \in [Ops -> SUBSET Paths]
    /\ writes \in 0..MaxForeign

Nothing == [p \in Paths |-> Absent]

(* A project as earlier calls may have left it. *)
Init ==
    /\ files \in [Paths -> Earlier \cup {Absent}]
    /\ scratch = {}
    /\ entry = None /\ gate = [o \in Ops |-> None]
    /\ refs = [o \in Ops |-> 0] /\ holder = [o \in Ops |-> None]
    /\ pc = [o \in Ops |-> "idle"] /\ at = [o \in Ops |-> 0]
    /\ def = [o \in Ops |-> None]
    /\ base = [o \in Ops |-> Nothing] /\ began = [o \in Ops |-> Nothing]
    /\ result = [o \in Ops |-> "none"] /\ spoiled = {}
    /\ touched = [o \in Ops |-> {}] /\ unseen = [o \in Ops |-> {}] /\ writes = 0

-----------------------------------------------------------------------------
Goto(o, l) == pc' = [pc EXCEPT ![o] = l]
Enters(o, l) == Goto(o, l) /\ at' = [at EXCEPT ![o] = 1]
Returns(o, r, l) == result' = [result EXCEPT ![o] = r] /\ Goto(o, l)
Looks(o, p) == unseen' = [unseen EXCEPT ![o] = @ \ {p}]

(* The next turn of a loop of n turns, or what comes after the loop. *)
Turn(o, n, after) == IF at[o] < n THEN Goto(o, pc[o]) /\ at' = [at EXCEPT ![o] = @ + 1]
                                  ELSE Enters(o, after)

(* The locals of calls that have ended. *)
Forget(ops) ==
    /\ at' = [o \in Ops |-> IF o \in ops THEN 0 ELSE at[o]]
    /\ def' = [o \in Ops |-> IF o \in ops THEN None ELSE def[o]]
    /\ base' = [o \in Ops |-> IF o \in ops THEN Nothing ELSE base[o]]
    /\ result' = [o \in Ops |-> IF o \in ops THEN "none" ELSE result[o]]
    /\ spoiled' = spoiled \ ops
    /\ began' = [o \in Ops |-> IF o \in ops THEN Nothing ELSE began[o]]
    /\ touched' = [o \in Ops |-> IF o \in ops THEN {} ELSE touched[o]]
    /\ unseen' = [o \in Ops |-> IF o \in ops THEN {} ELSE unseen[o]]

Mine(o) == {s \in scratch : s.op = o}

(* readArtifactContext: one consistent read. *)
ReadArtifact(p) == files[p]

(* buildTargetState.matches: the live binary is the one inspected before,  *)
(* or there is still none.                                                 *)
Matches(o) == files[Output] = base[o][Output]

(* The replacements of a call, in order: the artifacts that differ from    *)
(* what the Definition renders, or the binary.                             *)
Changes(o) ==
    IF o \in Builds THEN <<Output>> ELSE SelectSeq(Artifacts, LAMBDA p : base[o][p] # def[o])

-----------------------------------------------------------------------------
(* acquireProjectRoot. *)

(* Mutant: gates are found by the address of the identity, which differs   *)
(* between two loads of one project.                                       *)
EnterAlone(o, d) ==
    /\ pc[o] = "idle"
    /\ entry' = o /\ gate' = [gate EXCEPT ![o] = o]
    /\ refs' = [refs EXCEPT ![o] = @ + 1]
    /\ def' = [def EXCEPT ![o] = d]
    /\ Goto(o, "wait")
    /\ UNCHANGED <<files, scratch, holder, at, base, result, spoiled, history>>

(* Under the table's lock: find or create the gate of this root and count  *)
(* a reference.                                                            *)
Enter(o, d) ==
    /\ pc[o] = "idle"
    /\ LET g == IF entry = None THEN o ELSE entry IN
        /\ entry' = g
        /\ gate' = [gate EXCEPT ![o] = g]
        /\ refs' = [refs EXCEPT ![g] = @ + 1]
    /\ def' = [def EXCEPT ![o] = d]
    /\ Goto(o, "wait")
    /\ UNCHANGED <<files, scratch, holder, at, base, result, spoiled, history>>

(* The semaphore is free: openVerifiedRoot, prepare and, for a Build, the  *)
(* first look at the artifacts follow.                                     *)
TakeRoot(o) ==
    /\ pc[o] = "wait"
    /\ holder[gate[o]] = None
    /\ holder' = [holder EXCEPT ![gate[o]] = o]
    /\ Enters(o, IF o \in Generates THEN "baseline" ELSE "drift")
    /\ began' = [began EXCEPT ![o] = files]
    /\ touched' = [touched EXCEPT ![o] = {}]
    /\ unseen' = [unseen EXCEPT ![o] = {}]
    /\ UNCHANGED <<files, scratch, entry, refs, gate, def, base, result, spoiled, writes>>

(* The context ends first. *)
GiveUp(o) ==
    /\ pc[o] = "wait"
    /\ Returns(o, "error", "unref")
    /\ UNCHANGED <<files, scratch, gates, at, def, base, spoiled, history>>

(* The release function: the semaphore first, the reference after it. *)
Leave(o) ==
    /\ pc[o] = "leave"
    /\ holder' = [holder EXCEPT ![gate[o]] = None]
    /\ Goto(o, "unref")
    /\ UNCHANGED <<files, scratch, entry, refs, gate, at, def, base, result, spoiled, history>>

(* releaseReference: the last one takes the gate out of the table. *)
Unref(o) ==
    /\ pc[o] = "unref"
    /\ refs' = [refs EXCEPT ![gate[o]] = @ - 1]
    /\ entry' = IF refs[gate[o]] = 1 /\ entry = gate[o] THEN None ELSE entry
    /\ gate' = [gate EXCEPT ![o] = None]
    /\ Goto(o, "done")
    /\ Forget({o})
    /\ UNCHANGED <<files, scratch, holder, writes>>

-----------------------------------------------------------------------------
(* Generate, up to its first rename. *)

ReadBaseline(o) ==
    /\ pc[o] = "baseline"
    /\ LET p == Artifacts[at[o]] IN
        /\ base' = [base EXCEPT ![o][p] = ReadArtifact(p)]
        /\ Looks(o, p)
    /\ IF at[o] = Len(Artifacts) /\ \A p \in Generated : base'[o][p] = def[o]
       THEN Returns(o, "ok", "leave") /\ UNCHANGED at
       ELSE Turn(o, Len(Artifacts), "prepare") /\ UNCHANGED result
    /\ UNCHANGED <<files, scratch, gates, def, spoiled, began, touched, writes>>

(* A temporary beside the artifact, written and synced. *)
Prepare(o) ==
    /\ pc[o] = "prepare"
    /\ scratch' = scratch \cup {Sibling(o, Changes(o)[at[o]], "temporary")}
    /\ \/ Turn(o, Len(Changes(o)), "recheck") /\ UNCHANGED result
       \/ Returns(o, "error", "cleanup") /\ UNCHANGED at
    /\ UNCHANGED <<files, gates, def, base, spoiled, history>>

(* Mutant: only the artifacts to be replaced are looked at again. *)
RecheckChanges(o) ==
    /\ pc[o] = "recheck"
    /\ LET p == Artifacts[at[o]] IN
       IF ReadArtifact(p) = base[o][p] \/ base[o][p] = def[o]
       THEN Looks(o, p) /\ Turn(o, Len(Artifacts), "install") /\ UNCHANGED result
       ELSE Returns(o, "error", "cleanup") /\ UNCHANGED <<at, unseen>>
    /\ UNCHANGED <<files, scratch, gates, def, base, spoiled, began, touched, writes>>

(* Every artifact, also those that stay, must still be at its baseline. *)
Recheck(o) ==
    /\ pc[o] = "recheck"
    /\ LET p == Artifacts[at[o]] IN
       IF ReadArtifact(p) = base[o][p]
       THEN Looks(o, p) /\ Turn(o, Len(Artifacts), "install") /\ UNCHANGED result
       ELSE Returns(o, "error", "cleanup") /\ UNCHANGED <<at, unseen>>
    /\ UNCHANGED <<files, scratch, gates, def, base, spoiled, began, touched, writes>>

-----------------------------------------------------------------------------
(* Build, up to its rename. *)

(* checkArtifacts, before and after the compiler runs. *)
CheckDrift(o) ==
    /\ pc[o] \in {"drift", "redrift"}
    /\ LET p == Artifacts[at[o]] IN
       IF ReadArtifact(p) = def[o]
       THEN /\ Looks(o, p)
            /\ Turn(o, Len(Artifacts), IF pc[o] = "drift" THEN "target" ELSE "match")
            /\ UNCHANGED result
       ELSE Returns(o, "error", "cleanup") /\ UNCHANGED <<at, unseen>>
    /\ UNCHANGED <<files, scratch, gates, def, base, spoiled, began, touched, writes>>

InspectBuildTarget(o) ==
    /\ pc[o] = "target"
    /\ base' = [base EXCEPT ![o][Output] = files[Output]]
    /\ Looks(o, Output)
    /\ Goto(o, "stage")
    /\ UNCHANGED <<files, scratch, gates, at, def, result, spoiled, began, touched, writes>>

(* newBuildStaging: a private directory outside the project. *)
NewBuildStaging(o) ==
    /\ pc[o] = "stage"
    /\ scratch' = scratch \cup {Sibling(o, Output, "staging")}
    /\ Goto(o, "compile")
    /\ UNCHANGED <<files, gates, at, def, base, result, spoiled, history>>

(* go build into the staging directory, and the checks after it. *)
Compile(o) ==
    /\ pc[o] = "compile"
    /\ Enters(o, "redrift")
    /\ UNCHANGED <<files, scratch, gates, def, base, result, spoiled, history>>

(* Mutant: the binary is not looked at again before the rename. *)
MatchTargetOnce(o) ==
    /\ pc[o] \in {"match", "rematch"}
    /\ IF Matches(o) \/ pc[o] = "rematch"
       THEN Looks(o, Output) /\ Enters(o, IF pc[o] = "match" THEN "copy" ELSE "install") /\ UNCHANGED result
       ELSE Returns(o, "error", "cleanup") /\ UNCHANGED <<at, unseen>>
    /\ UNCHANGED <<files, scratch, gates, def, base, spoiled, began, touched, writes>>

MatchTarget(o) ==
    /\ pc[o] \in {"match", "rematch"}
    /\ IF Matches(o)
       THEN Looks(o, Output) /\ Enters(o, IF pc[o] = "match" THEN "copy" ELSE "install") /\ UNCHANGED result
       ELSE Returns(o, "error", "cleanup") /\ UNCHANGED <<at, unseen>>
    /\ UNCHANGED <<files, scratch, gates, def, base, spoiled, began, touched, writes>>

(* copyStagedBuildOutput *)
CopyStagedBuildOutput(o) ==
    /\ pc[o] = "copy"
    /\ scratch' = scratch \cup {Sibling(o, Output, "temporary")}
    /\ Goto(o, "closeStaging")
    /\ UNCHANGED <<files, gates, at, def, base, result, spoiled, history>>

(* buildStaging.Close removes the directory, or gives it up for good. *)
CloseStaging(o) ==
    /\ pc[o] = "closeStaging"
    /\ \/ /\ scratch' = scratch \ {Sibling(o, Output, "staging")}
          /\ Goto(o, IF base[o][Output] = Absent THEN "rematch" ELSE "backup")
          /\ UNCHANGED <<result, spoiled>>
       \/ /\ spoiled' = spoiled \cup {o}
          /\ Returns(o, "error", "cleanup")
          /\ UNCHANGED scratch
    /\ UNCHANGED <<files, gates, at, def, base, history>>

(* copyBuildTargetToSibling copies the live binary, if it is still the     *)
(* one that was inspected.                                                 *)
Backup(o) ==
    /\ pc[o] = "backup"
    /\ IF Matches(o)
       THEN /\ scratch' = scratch \cup {Sibling(o, Output, "backup")}
            /\ Looks(o, Output) /\ Goto(o, "rematch") /\ UNCHANGED result
       ELSE Returns(o, "error", "cleanup") /\ UNCHANGED <<scratch, unseen>>
    /\ UNCHANGED <<files, gates, at, def, base, spoiled, began, touched, writes>>

-----------------------------------------------------------------------------
(* The renames, and what may follow them. *)

(* Cancellation, a failing read, write or validation before the renames. *)
Fail(o) ==
    /\ pc[o] \in Cancelable
    /\ Returns(o, "error", "cleanup")
    /\ UNCHANGED <<files, scratch, gates, at, def, base, spoiled, history>>

Install(o) ==
    /\ pc[o] = "install"
    /\ LET p == Changes(o)[at[o]] IN
        /\ files' = [files EXCEPT ![p] = def[o]]
        /\ scratch' = scratch \ {Sibling(o, p, "temporary")}
    /\ Turn(o, Len(Changes(o)), "settle")
    /\ UNCHANGED <<gates, def, base, result, spoiled, history>>

(* Mutant: a rename that fails is reported, the earlier ones stay. *)
InstallFailsForward(o) ==
    /\ pc[o] = "install"
    /\ Returns(o, "error", "cleanup")
    /\ UNCHANGED <<files, scratch, gates, at, def, base, spoiled, history>>

(* A rename fails: the earlier ones are undone. *)
InstallFails(o) ==
    /\ pc[o] = "install"
    /\ at' = [at EXCEPT ![o] = @ - 1]
    /\ Returns(o, "error", IF at[o] = 1 THEN "cleanup" ELSE "rollback")
    /\ UNCHANGED <<files, scratch, gates, def, base, spoiled, history>>

(* The directories are synced, the root is still where it was, and a Build *)
(* removes its backup.                                                     *)
Settle(o) ==
    /\ pc[o] = "settle"
    /\ scratch' = scratch \ {Sibling(o, Output, "backup")}
    /\ Returns(o, "ok", "leave")
    /\ UNCHANGED <<files, gates, at, def, base, spoiled, history>>

SettleFails(o) ==
    /\ pc[o] = "settle"
    /\ at' = [at EXCEPT ![o] = Len(Changes(o))]
    /\ Returns(o, "error", "rollback")
    /\ UNCHANGED <<files, scratch, gates, def, base, spoiled, history>>

(* rollbackReplacements, last rename first: remove the file, write its     *)
(* previous content again, or rename the backup over it.  What cannot be   *)
(* restored stays, with its backup.  A Build has nothing else to clean.    *)
Rollback(o) ==
    /\ pc[o] = "rollback"
    /\ LET p == Changes(o)[at[o]] IN
       \/ /\ files' = [files EXCEPT ![p] = base[o][p]]
          /\ scratch' = scratch \ {Sibling(o, p, "backup")}
          /\ UNCHANGED spoiled
       \/ spoiled' = spoiled \cup {o} /\ UNCHANGED <<files, scratch>>
    /\ IF at[o] > 1 THEN at' = [at EXCEPT ![o] = @ - 1] /\ UNCHANGED pc
       ELSE Goto(o, IF o \in Builds THEN "leave" ELSE "cleanup") /\ UNCHANGED at
    /\ UNCHANGED <<gates, def, base, result, history>>

(* cleanupPrepared, cleanupBuild, cleanupPreCommit and the deferred close  *)
(* of the staging directory; any removal may fail.                         *)
Cleanup(o) ==
    /\ pc[o] = "cleanup"
    /\ \E left \in SUBSET Mine(o) :
        /\ o \in spoiled => {s \in Mine(o) : s.kind = "staging"} \subseteq left
        /\ scratch' = (scratch \ Mine(o)) \cup left
        /\ spoiled' = IF left = {} THEN spoiled ELSE spoiled \cup {o}
    /\ Goto(o, "leave")
    /\ UNCHANGED <<files, gates, at, def, base, result, history>>

-----------------------------------------------------------------------------
(* Around the calls. *)

(* Another program writes or removes a file of the project. *)
ForeignWrite(p) ==
    /\ writes < MaxForeign
    /\ writes' = writes + 1
    /\ \E c \in {Other, Absent} \ {files[p]} : files' = [files EXCEPT ![p] = c]
    /\ touched' = [o \in Ops |-> IF pc[o] \in Holding THEN touched[o] \cup {p} ELSE touched[o]]
    /\ unseen' = [o \in Ops |-> IF pc[o] \in Holding THEN unseen[o] \cup {p} ELSE unseen[o]]
    /\ UNCHANGED <<scratch, gates, pc, at, def, base, result, spoiled, began>>

(* The process dies.  The gates are its memory; the files stay. *)
Crash ==
    LET running == {o \in Ops : pc[o] \in Waiting \cup Holding} IN
    /\ running # {}
    /\ pc' = [o \in Ops |-> IF o \in running THEN "dead" ELSE pc[o]]
    /\ entry' = None /\ gate' = [o \in Ops |-> None]
    /\ refs' = [o \in Ops |-> 0] /\ holder' = [o \in Ops |-> None]
    /\ Forget(running)
    /\ UNCHANGED <<files, scratch, writes>>

GenerateStep(o) == ReadBaseline(o) \/ Prepare(o) \/ Recheck(o)
BuildStep(o) ==
    \/ CheckDrift(o) \/ InspectBuildTarget(o) \/ NewBuildStaging(o) \/ Compile(o) \/ MatchTarget(o)
    \/ CopyStagedBuildOutput(o) \/ CloseStaging(o) \/ Backup(o)
ReplaceStep(o) ==
    Install(o) \/ InstallFails(o) \/ Settle(o) \/ SettleFails(o) \/ Rollback(o) \/ Cleanup(o)
GateStep(o) == TakeRoot(o) \/ Leave(o) \/ Unref(o)

Next ==
    \/ \E o \in Ops, d \in Definitions : Enter(o, d)
    \/ \E o \in Ops : GateStep(o) \/ GiveUp(o) \/ Fail(o) \/ ReplaceStep(o)
    \/ \E o \in Generates : GenerateStep(o)
    \/ \E o \in Builds : BuildStep(o)
    \/ \E p \in Paths : ForeignWrite(p)
    \/ Crash

Spec == Init /\ [][Next]_vars

-----------------------------------------------------------------------------
(* generate.go: "Calls in this process are serialized per root".  A gate   *)
(* is taken out of the table while nobody refers to it, so that two calls  *)
(* never hold the root through two gates.                                  *)
RootSerialized ==
    \A o, q \in Ops : pc[o] \in Holding /\ pc[q] \in Holding => o = q

(* generate.go: "a commit failure attempts to roll already replaced files  *)
(* back" and "Cancellation before the first replacement removes all        *)
(* prepared files and leaves every configured artifact at its baseline     *)
(* state".  A call that returns an error, and was able to undo, leaves     *)
(* every file that no other program wrote as the call found it, and        *)
(* nothing of its own.                                                     *)
FailureRestores ==
    \A o \in Ops : pc[o] = "leave" /\ result[o] = "error" /\ o \notin spoiled =>
        Mine(o) = {} /\ \A p \in Paths \ touched[o] : files[p] = began[o][p]

(* A call that returns nil has installed what its Definition says, beside  *)
(* artifacts that all say the same, but for what other programs wrote      *)
(* after the call had looked for the last time.                            *)
OkMeansCurrent ==
    \A o \in Ops : pc[o] = "leave" /\ result[o] = "ok" =>
        /\ Mine(o) = {}
        /\ \A p \in Generated \ unseen[o] : files[p] = def[o]
        /\ o \in Builds /\ Output \notin unseen[o] => files[Output] = def[o]

(* "External writers ... are rejected when baseline checks can observe     *)
(* them": a rename replaces the very content the call had read, unless     *)
(* another program wrote it after the last look.                           *)
ReplacesWhatItRead ==
    [][\A o \in Ops : Install(o) =>
        LET p == Changes(o)[at[o]] IN files[p] = base[o][p] \/ p \in unseen[o]]_vars
=============================================================================
