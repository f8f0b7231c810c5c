----------------------------- MODULE Publication ------------------------------
(***************************************************************************)
(* How a command-line generation delivers its files                        *)
(* (src/cli/inkling_run.c, run_ids): tokens, the cache trace and the JSON  *)
(* report are staged in temporary files next to their destinations and     *)
(* renamed into place only after the whole run has succeeded.  With        *)
(* --dump-logits a run evaluates its tokens and delivers that one file     *)
(* (write_logits).  Any write, close or rename can fail, the process can   *)
(* be killed anywhere, and several runs may share destinations: the file   *)
(* system is the only state they have in common.                           *)
(*                                                                         *)
(* mkstemp never hands out a name twice, so a temporary file is named by   *)
(* its run and kind.                                                       *)
(***************************************************************************)
EXTENDS Integers, Sequences

CONSTANTS
  Runs,      (* processes                                                  *)
  Options,   (* the destinations a run may be given: [Kinds -> path]       *)
  Paths,     (* places in the file system                                  *)
  NoPath     (* the option is absent                                       *)

Kinds == {"token", "report", "trace", "logits"}

ASSUME PublicationAssumption ==
  /\ NoPath \notin Paths
  /\ "before" \notin Runs
  /\ Options \subseteq [Kinds -> Paths \cup {NoPath}]

VARIABLES
  path,      (* per run, its destinations                                  *)
  at,        (* per run, the number of the operation it performs next      *)
  temp,      (* per run and kind, its temporary file                       *)
  torn,      (* per run, cache_log.failed: a trace event was not written   *)
  published, (* per run, the published flags                               *)
  screen,    (* per run, what it wrote to stdout                           *)
  told,      (* per run, the files a failure said were published           *)
  exit,      (* per run, its exit status                                   *)
  disk,      (* per path, the file there                                   *)
  replaced   (* history variable: per run, the kinds it has replaced       *)

perRun == <<temp, torn, published, screen, told, exit, replaced>>
vars == <<path, at, perRun, disk>>

Operation(does, of) == [does |-> does, of |-> of]

Wanted(r) == {k \in Kinds : path[r][k] # NoPath}

\* Mutant: a file is renamed as soon as it is written.
OrderEager ==
  <<Operation("stage", "trace"), Operation("generate", "none"), Operation("write", "trace"),
    Operation("stage", "token"), Operation("write", "token"), Operation("publish", "token"),
    Operation("stage", "report"), Operation("write", "report"),
    Operation("publish", "trace"), Operation("publish", "report"),
    Operation("stage", "logits"), Operation("write", "logits"), Operation("publish", "logits"),
    Operation("print", "none")>>

\* The operations of a run in the order of the code.
Order ==
  <<Operation("stage", "trace"), Operation("generate", "none"), Operation("write", "trace"),
    Operation("stage", "token"), Operation("write", "token"),
    Operation("stage", "report"), Operation("write", "report"),
    Operation("publish", "token"), Operation("publish", "trace"), Operation("publish", "report"),
    Operation("stage", "logits"), Operation("write", "logits"), Operation("publish", "logits"),
    Operation("print", "none")>>

\* Mutant: the trace is left behind.
CleanupThree ==
  <<Operation("discard", "logits"), Operation("discard", "token"), Operation("discard", "report")>>

Cleanup ==
  <<Operation("discard", "logits"), Operation("discard", "token"), Operation("discard", "report"),
    Operation("discard", "trace")>>

Program == Order \o Cleanup
FirstCleanup == Len(Order) + 1
End == Len(Program) + 1

\* Files that were not asked for are skipped, and the report goes to stdout.
Needed(paths, op) ==
  CASE op.of \in Kinds -> paths[op.of] # NoPath
    [] op.does = "print" -> paths["report"] = NoPath /\ paths["logits"] = NoPath
    [] OTHER -> TRUE

\* The first operation from number i on that is not skipped.
From(paths, i) ==
  CHOOSE j \in i..End :
    /\ j # End => Needed(paths, Program[j])
    /\ \A h \in i..(j - 1) : ~Needed(paths, Program[h])

\* A dump has no other output; otherwise same_destination() of each pair, whose
\* errors count as equality.
Accepted(paths) ==
  /\ paths["logits"] # NoPath => \A k \in Kinds \ {"logits"} : paths[k] = NoPath
  /\ \A j, k \in Kinds : paths[j] = paths[k] /\ j # k => paths[j] = NoPath

Init ==
  /\ path \in [Runs -> Options]
  /\ at = [r \in Runs |-> IF Accepted(path[r]) THEN From(path[r], 1) ELSE End]
  /\ temp = [r \in Runs |-> [k \in Kinds |-> "none"]]
  /\ torn = [r \in Runs |-> FALSE]
  /\ published = [r \in Runs |-> {}] /\ replaced = [r \in Runs |-> {}]
  /\ screen = [r \in Runs |-> "blank"]
  /\ told = [r \in Runs |-> {}]
  /\ exit = [r \in Runs |-> IF Accepted(path[r]) THEN "running" ELSE "usage"]
  /\ disk = [p \in Paths |-> [by |-> "before", kind |-> "none", state |-> "whole"]]

Does(r, what) == at[r] # End /\ Program[at[r]].does = what
Current(r) == Program[at[r]].of
Advance(r) == at' = [at EXCEPT ![r] = From(path[r], @ + 1)]

-------------------------------------------------------------------------------
\* stage_file(), write_logits(): a new temporary file beside the destination.
Stage(r) ==
  /\ Does(r, "stage")
  /\ temp' = [temp EXCEPT ![r][Current(r)] = "partial"]
  /\ Advance(r)
  /\ UNCHANGED <<path, torn, published, screen, told, exit, disk, replaced>>

\* inkling_generate() or inkling_forward(); a trace event that cannot be written
\* is only remembered.
Generate(r) ==
  /\ Does(r, "generate")
  /\ \E failed \in {FALSE, temp[r]["trace"] = "partial"} : torn' = [torn EXCEPT ![r] = failed]
  /\ Advance(r)
  /\ UNCHANGED <<path, temp, published, screen, told, exit, disk, replaced>>

\* Mutant: a trace that lost an event is finished all the same.
WriteTorn(r) ==
  /\ Does(r, "write")
  /\ temp' = [temp EXCEPT ![r][Current(r)] =
                IF Current(r) = "trace" /\ torn[r] THEN "partial" ELSE "whole"]
  /\ Advance(r)
  /\ UNCHANGED <<path, torn, published, screen, told, exit, disk, replaced>>

\* The rest of the file is written and the file is closed.
Write(r) ==
  /\ Does(r, "write")
  /\ Current(r) = "trace" => ~torn[r]
  /\ temp' = [temp EXCEPT ![r][Current(r)] = "whole"]
  /\ Advance(r)
  /\ UNCHANGED <<path, torn, published, screen, told, exit, disk, replaced>>

\* publish_file(): rename replaces the destination in one step.
Publish(r) ==
  /\ Does(r, "publish")
  /\ LET k == Current(r) IN
       /\ disk' = [disk EXCEPT ![path[r][k]] = [by |-> r, kind |-> k, state |-> temp[r][k]]]
       /\ temp' = [temp EXCEPT ![r][k] = "none"]
       /\ published' = [published EXCEPT ![r] = @ \cup {k}]
       /\ replaced' = [replaced EXCEPT ![r] = @ \cup {k}]
  /\ Advance(r)
  /\ UNCHANGED <<path, torn, screen, told, exit>>

PrintReport(r) ==
  /\ Does(r, "print")
  /\ screen' = [screen EXCEPT ![r] = "whole"]
  /\ Advance(r)
  /\ UNCHANGED <<path, temp, torn, published, told, exit, disk, replaced>>

\* Mutant: a failure says nothing of what it has already replaced.
FailSilently(r) ==
  /\ exit[r] = "running" /\ at[r] # End /\ ~Does(r, "discard")
  /\ at' = [at EXCEPT ![r] = From(path[r], FirstCleanup)]
  /\ exit' = [exit EXCEPT ![r] = "failed"]
  /\ UNCHANGED <<path, temp, torn, published, screen, told, disk, replaced>>

\* An operation fails: the rest is skipped, what was published is reported.
\* A print that fails may have shown part of the report.
Fail(r) ==
  /\ exit[r] = "running" /\ at[r] # End /\ ~Does(r, "discard")
  /\ at' = [at EXCEPT ![r] = From(path[r], FirstCleanup)]
  /\ told' = [told EXCEPT ![r] = published[r]]
  /\ exit' = [exit EXCEPT ![r] = "failed"]
  /\ screen' = [screen EXCEPT ![r] = IF Does(r, "print") THEN "partial" ELSE @]
  /\ UNCHANGED <<path, temp, torn, published, disk, replaced>>

\* discard_file(): after a publication there is nothing left to remove.
Discard(r) ==
  /\ Does(r, "discard")
  /\ temp' = [temp EXCEPT ![r][Current(r)] = "none"]
  /\ Advance(r)
  /\ UNCHANGED <<path, torn, published, screen, told, exit, disk, replaced>>

\* The end of run_ids.
Finish(r) ==
  /\ at[r] = End /\ exit[r] \in {"running", "failed"}
  /\ exit' = [exit EXCEPT ![r] = IF @ = "running" THEN "0" ELSE "1"]
  /\ UNCHANGED <<path, at, temp, torn, published, screen, told, disk, replaced>>

\* The process is killed.
Crash(r) ==
  /\ exit[r] \in {"running", "failed"}
  /\ exit' = [exit EXCEPT ![r] = "killed"]
  /\ at' = [at EXCEPT ![r] = End]
  /\ UNCHANGED <<path, temp, torn, published, screen, told, disk, replaced>>

Step(r) ==
  \/ Stage(r) \/ Generate(r) \/ Write(r) \/ Publish(r) \/ PrintReport(r)
  \/ Fail(r) \/ Discard(r) \/ Finish(r)

Next == \E r \in Runs : Step(r) \/ Crash(r)

Spec == Init /\ [][Next]_vars
-------------------------------------------------------------------------------
Ended(r) == exit[r] \in {"0", "1"}

\* "Each file replacement is atomic": at no instant, whoever fails or is killed,
\* does a destination hold an unfinished file.
DestinationsWhole == \A p \in Paths : disk[p].state = "whole"

\* "Generation failures and staging failures preserve existing destinations": a
\* run replaces its first destination only when each of its files is finished.
\* "The token file publishes first and the JSON report last": who sees a run's
\* report can rely on its other files having been there.
PublishedInOrder ==
  \A r \in Runs :
    /\ exit[r] = "running" /\ replaced[r] # {} =>
         \A k \in Wanted(r) : k \in replaced[r] \/ temp[r][k] = "whole"
    /\ "report" \in replaced[r] => Wanted(r) \subseteq replaced[r]

\* The exit status and the diagnostics tell what happened to the destinations:
\* all of them were replaced and the report was shown, or exactly those named; and
\* a run never replaces one of its own outputs with another.
ExitHonest ==
  \A r \in Runs :
    /\ exit[r] = "0" => /\ replaced[r] = Wanted(r)
                        /\ path[r]["report"] = NoPath /\ path[r]["logits"] = NoPath =>
                             screen[r] = "whole"
    /\ exit[r] = "1" => told[r] = replaced[r]
    /\ \A k \in replaced[r] : disk[path[r][k]].by = r => disk[path[r][k]].kind = k

\* No run that ends by itself leaves a temporary file behind.
NoLitter == \A r \in Runs : Ended(r) => \A k \in Kinds : temp[r][k] = "none"
===============================================================================
