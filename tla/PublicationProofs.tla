--------------------------- MODULE PublicationProofs ---------------------------
(***************************************************************************)
(* The properties of Publication, proved for any number of runs and any    *)
(* destinations.                                                           *)
(*                                                                         *)
(* The four properties follow from one invariant about how far a run has   *)
(* come: each file it was asked for is behind its write, before its        *)
(* rename, or behind it, and the state of the temporary file, the flags    *)
(* and the history agree with that.  Only the destinations are shared, and *)
(* about them it says two things that no other run can disturb: what is    *)
(* there is whole, and it was put there by a run that was asked to.        *)
(***************************************************************************)
EXTENDS Publication, SequenceTheorems, DataLemmas

\* Where the operations stand in the program.
StageAt == [k \in Kinds |-> CASE k = "trace" -> 1 [] k = "token" -> 4
                              [] k = "report" -> 6 [] k = "logits" -> 11]
WriteAt == [k \in Kinds |-> CASE k = "trace" -> 3 [] k = "token" -> 5
                              [] k = "report" -> 7 [] k = "logits" -> 12]
PublishAt == [k \in Kinds |-> CASE k = "token" -> 8 [] k = "trace" -> 9
                                [] k = "report" -> 10 [] k = "logits" -> 13]
DiscardAt == [k \in Kinds |-> CASE k = "logits" -> 15 [] k = "token" -> 16
                                [] k = "report" -> 17 [] k = "trace" -> 18]
GenerateAt == 2
PrintAt == 14

States == {"none", "partial", "whole"}
Exits == {"running", "failed", "killed", "usage", "0", "1"}

TypeOK ==
  /\ path \in [Runs -> Options]
  /\ at \in [Runs -> 1..19]
  /\ temp \in [Runs -> [Kinds -> States]]
  /\ torn \in [Runs -> BOOLEAN]
  /\ published \in [Runs -> SUBSET Kinds]
  /\ replaced \in [Runs -> SUBSET Kinds]
  /\ told \in [Runs -> SUBSET Kinds]
  /\ screen \in [Runs -> {"blank", "partial", "whole"}]
  /\ exit \in [Runs -> Exits]
  /\ disk \in [Paths -> [by : Runs \cup {"before"}, kind : Kinds \cup {"none"}, state : States]]

Silent(r) == path[r]["report"] # NoPath \/ path[r]["logits"] # NoPath

\* What a run has replaced is what it says it has, in the order of the code.
Recorded(r) ==
  /\ published[r] = replaced[r]
  /\ replaced[r] \subseteq Wanted(r)
  /\ "report" \in replaced[r] => Wanted(r) \subseteq replaced[r]
  /\ exit[r] = "usage" => replaced[r] = {}
  /\ exit[r] # "usage" => Accepted(path[r])

\* A run on its way out of the program, or still in it.
Working(r) ==
  exit[r] = "running" =>
    /\ \A k \in Wanted(r) :
         /\ k \in replaced[r] <=> at[r] > PublishAt[k]
         /\ at[r] > WriteAt[k] /\ at[r] <= PublishAt[k] => temp[r][k] = "whole"
         /\ at[r] > PublishAt[k] => temp[r][k] = "none"
    /\ at[r] > PrintAt => Silent(r) \/ screen[r] = "whole"

Failed(r) ==
  exit[r] = "failed" =>
    /\ at[r] >= 15
    /\ told[r] = replaced[r]
    /\ \A k \in Kinds : temp[r][k] # "none" => at[r] <= DiscardAt[k]

Concluded(r) ==
  /\ exit[r] = "0" => /\ replaced[r] = Wanted(r)
                      /\ Silent(r) \/ screen[r] = "whole"
  /\ exit[r] = "1" => told[r] = replaced[r]
  /\ Ended(r) => \A k \in Kinds : temp[r][k] = "none"

\* Operations that are not needed are not met, and leave no trace.
OnTheWay(r) ==
  /\ at[r] # 19 => Needed(path[r], Program[at[r]])
  /\ \A k \in Kinds \ Wanted(r) : temp[r][k] = "none"
  /\ exit[r] \notin {"running", "failed"} => at[r] = 19

Delivered(p) ==
  /\ disk[p].state = "whole"
  /\ \A r \in Runs : disk[p].by = r => /\ disk[p].kind \in Wanted(r)
                                       /\ path[r][disk[p].kind] = p

RunInv(r) == Recorded(r) /\ Working(r) /\ Failed(r) /\ Concluded(r) /\ OnTheWay(r)

IInv ==
  /\ TypeOK
  /\ \A r \in Runs : RunInv(r)
  /\ \A p \in Paths : Delivered(p)
-------------------------------------------------------------------------------
\* The program has eighteen operations: fourteen of the run, four of its cleanup.
LEMMA ProgramLength ==
  /\ Len(Order) = 14 /\ Len(Cleanup) = 4 /\ Len(Program) = 18
  /\ FirstCleanup = 15 /\ End = 19
  /\ \A i \in 1..18 : Program[i] = IF i <= 14 THEN Order[i] ELSE Cleanup[i - 14]
<1> DEFINE Ops == [does : {"stage", "generate", "write", "publish", "print", "discard"},
                    of : Kinds \cup {"none"}]
<1>1. Order \in Seq(Ops) /\ Len(Order) = 14
  <2>1. \A n \in 1..14 : Order[n] \in Ops
    BY DEF Order, Operation, Kinds
  <2>2. Order \in Seq(Ops)
    <3> HIDE DEF Ops
    <3> QED
      BY <2>1 DEF Order
  <2> QED
    BY <2>2 DEF Order
<1>2. Cleanup \in Seq(Ops) /\ Len(Cleanup) = 4
  BY DEF Cleanup, Operation, Kinds
<1> HIDE DEF Ops
<1>3. Len(Program) = 18 /\ \A i \in 1..18 : Program[i] = IF i <= 14 THEN Order[i] ELSE Cleanup[i - 14]
  <2>1. Program \in Seq(Ops) /\ Len(Program) = Len(Order) + Len(Cleanup)
    BY <1>1, <1>2, ConcatProperties DEF Program
  <2>2. \A i \in 1..Len(Order) + Len(Cleanup) :
          Program[i] = IF i <= Len(Order) THEN Order[i] ELSE Cleanup[i - Len(Order)]
    BY <1>1, <1>2, ConcatProperties DEF Program
  <2> QED
    BY <1>1, <1>2, <2>1, <2>2
<1> QED
  BY <1>1, <1>2, <1>3 DEF FirstCleanup, End

\* Where each operation stands ...
LEMMA Placed ==
  ASSUME NEW k \in Kinds
  PROVE  /\ WriteAt[k] \in 1..14 /\ PublishAt[k] \in 1..14 /\ DiscardAt[k] \in 15..18
         /\ WriteAt[k] < PublishAt[k]
         /\ Program[WriteAt[k]] = Operation("write", k)
         /\ Program[PublishAt[k]] = Operation("publish", k)
         /\ Program[DiscardAt[k]] = Operation("discard", k)
<1>1. CASE k = "trace"
  BY <1>1, ProgramLength DEF WriteAt, PublishAt, DiscardAt, Order, Cleanup, Kinds
<1>2. CASE k = "token"
  BY <1>2, ProgramLength DEF WriteAt, PublishAt, DiscardAt, Order, Cleanup, Kinds
<1>3. CASE k = "report"
  BY <1>3, ProgramLength DEF WriteAt, PublishAt, DiscardAt, Order, Cleanup, Kinds
<1>4. CASE k = "logits"
  BY <1>4, ProgramLength DEF WriteAt, PublishAt, DiscardAt, Order, Cleanup, Kinds
<1> QED
  BY <1>1, <1>2, <1>3, <1>4 DEF Kinds

Stands(i) ==
  LET op == Program[i] IN
  /\ op.does \in {"stage", "generate", "write", "publish", "print", "discard"}
  /\ op.does \in {"stage", "write", "publish", "discard"} <=> op.of \in Kinds
  /\ op.does = "stage" => op.of \in Kinds /\ i = StageAt[op.of]
  /\ op.does = "generate" <=> i = GenerateAt
  /\ op.does = "write" => op.of \in Kinds /\ i = WriteAt[op.of]
  /\ op.does = "publish" => op.of \in Kinds /\ i = PublishAt[op.of]
  /\ op.does = "print" <=> i = PrintAt
  /\ op.does = "discard" <=> i >= 15
  /\ op.does = "discard" => op.of \in Kinds /\ i = DiscardAt[op.of]

\* ... and which stands where.
LEMMA Standing == \A i \in 1..18 : Stands(i)
<1> SUFFICES ASSUME NEW i \in 1..18 PROVE Stands(i)
  OBVIOUS
<1> USE ProgramLength DEF Stands, StageAt, WriteAt, PublishAt, DiscardAt, GenerateAt, PrintAt,
                          Order, Cleanup, Kinds, Operation
<1>1. CASE i = 1
  BY <1>1
<1>2. CASE i = 2
  BY <1>2
<1>3. CASE i = 3
  BY <1>3
<1>4. CASE i = 4
  BY <1>4
<1>5. CASE i = 5
  BY <1>5
<1>6. CASE i = 6
  BY <1>6
<1>7. CASE i = 7
  BY <1>7
<1>8. CASE i = 8
  BY <1>8
<1>9. CASE i = 9
  BY <1>9
<1>10. CASE i = 10
  BY <1>10
<1>11. CASE i = 11
  BY <1>11
<1>12. CASE i = 12
  BY <1>12
<1>13. CASE i = 13
  BY <1>13
<1>14. CASE i = 14
  BY <1>14
<1>15. CASE i = 15
  BY <1>15
<1>16. CASE i = 16
  BY <1>16
<1>17. CASE i = 17
  BY <1>17
<1>18. CASE i = 18
  BY <1>18
<1> HIDE DEF Stands
<1> QED
  BY <1>1, <1>2, <1>3, <1>4, <1>5, <1>6, <1>7, <1>8, <1>9, <1>10, <1>11, <1>12, <1>13, <1>14,
     <1>15, <1>16, <1>17, <1>18

\* The next operation exists, is needed, and none that is needed is passed over.
LEMMA Onward ==
  ASSUME NEW paths, NEW i \in 1..19
  PROVE  /\ From(paths, i) \in i..19
         /\ From(paths, i) # 19 => Needed(paths, Program[From(paths, i)])
         /\ \A h \in i..18 : Needed(paths, Program[h]) => From(paths, i) <= h
<1> DEFINE Stop(j) == j # 19 => Needed(paths, Program[j])
           Stops == {j \in i..19 : Stop(j)}
           Fits(j) == Stop(j) /\ \A h \in i..(j - 1) : ~Needed(paths, Program[h])
<1>1. PICK j \in Stops : \A h \in Stops : j <= h
  <2>1. 19 \in Stops
    OBVIOUS
  <2>2. Stops \in SUBSET Nat
    OBVIOUS
  <2> HIDE DEF Stops
  <2> QED
    BY <2>1, <2>2, LeastNatural
<1>3. \A h \in i..(j - 1) : ~Needed(paths, Program[h])
  <2> SUFFICES ASSUME NEW h \in i..(j - 1), Needed(paths, Program[h]) PROVE FALSE
    OBVIOUS
  <2>1. h \in Stops
    OBVIOUS
  <2> QED
    BY <2>1, <1>1
<1>4. \E c \in i..19 : Fits(c)
  BY <1>3
<1> DEFINE F == CHOOSE c \in i..19 : Fits(c)
<1>5. F \in i..19 /\ Fits(F)
  BY <1>4
<1>6. From(paths, i) = F
  BY ProgramLength DEF From
<1> HIDE DEF F
<1> QED
  BY <1>5, <1>6

-------------------------------------------------------------------------------
\* What a run can see of its own state, and whether a step leaves it alone.
Same(s) ==
  /\ path'[s] = path[s] /\ at'[s] = at[s] /\ temp'[s] = temp[s]
  /\ published'[s] = published[s] /\ replaced'[s] = replaced[s]
  /\ screen'[s] = screen[s] /\ told'[s] = told[s] /\ exit'[s] = exit[s]

\* Runs do not touch what the invariant says of each other.
LEMMA OthersStay ==
  ASSUME NEW s \in Runs, RunInv(s), Same(s)
  PROVE  RunInv(s)'
<1> USE DEF Same, Wanted, Silent
<1>1. Recorded(s)'
  BY DEF RunInv, Recorded
<1>2. Working(s)'
  BY DEF RunInv, Working
<1>3. Failed(s)'
  BY DEF RunInv, Failed
<1>4. Concluded(s)'
  BY DEF RunInv, Concluded, Ended
<1>5. OnTheWay(s)'
  BY DEF RunInv, OnTheWay
<1> QED
  BY <1>1, <1>2, <1>3, <1>4, <1>5 DEF RunInv

\* So a step of one run keeps the invariant if it keeps that run's part of it and
\* leaves the destinations sound.
LEMMA OneMoves ==
  ASSUME IInv, NEW r \in Runs, TypeOK', RunInv(r)',
         \A s \in Runs \ {r} : Same(s),
         \A p \in Paths : Delivered(p)'
  PROVE  IInv'
BY OthersStay DEF IInv

\* A step that replaces no destination leaves them sound.
LEMMA Undelivered ==
  ASSUME IInv, UNCHANGED <<path, disk>>, NEW p \in Paths
  PROVE  Delivered(p)'
BY DEF IInv, Delivered, Wanted

\* The place of a run says what it does, and on which file.
LEMMA Doing ==
  ASSUME NEW r, at[r] \in 1..18
  PROVE  LET what == Program[at[r]].does IN
         /\ \A w : Does(r, w) <=> what = w
         /\ at[r] = PrintAt <=> what = "print"
         /\ \A k \in Kinds : /\ at[r] = WriteAt[k] <=> what = "write" /\ Current(r) = k
                             /\ at[r] = PublishAt[k] <=> what = "publish" /\ Current(r) = k
                             /\ at[r] = DiscardAt[k] <=> what = "discard" /\ Current(r) = k
<1>1. Stands(at[r])
  BY Standing
<1>2. \A w, k : Operation(w, k).does = w /\ Operation(w, k).of = k
  BY DEF Operation
<1>3. ASSUME NEW k \in Kinds
      PROVE  LET what == Program[at[r]].does IN
             /\ at[r] = WriteAt[k] <=> what = "write" /\ Current(r) = k
             /\ at[r] = PublishAt[k] <=> what = "publish" /\ Current(r) = k
             /\ at[r] = DiscardAt[k] <=> what = "discard" /\ Current(r) = k
  <2>1. /\ Program[WriteAt[k]] = Operation("write", k)
        /\ Program[PublishAt[k]] = Operation("publish", k)
        /\ Program[DiscardAt[k]] = Operation("discard", k)
    BY Placed
  <2> QED
    BY <1>1, <1>2, <2>1 DEF Stands, Current
<1>4. \A w : Does(r, w) <=> Program[at[r]].does = w
  BY ProgramLength DEF Does
<1> QED
  BY <1>1, <1>3, <1>4 DEF Stands

\* A run that performs an operation before the cleanup has not failed.
LEMMA Performing ==
  ASSUME IInv, NEW r \in Runs, at[r] # 19
  PROVE  /\ at[r] \in 1..18 /\ Stands(at[r]) /\ Needed(path[r], Program[at[r]])
         /\ exit[r] \in {"running", "failed"}
         /\ ~Does(r, "discard") => exit[r] = "running" /\ at[r] < 15
         /\ Accepted(path[r])
<1>1. RunInv(r) /\ at[r] \in 1..18
  BY DEF IInv, TypeOK
<1>2. Stands(at[r])
  BY <1>1, Standing
<1>3. exit[r] \in {"running", "failed"} /\ Needed(path[r], Program[at[r]]) /\ Accepted(path[r])
  BY <1>1 DEF RunInv, OnTheWay, Recorded
<1>4. ~Does(r, "discard") => at[r] < 15
  BY <1>1, <1>2, ProgramLength DEF Does, Stands
<1>5. at[r] < 15 => exit[r] # "failed"
  BY <1>1 DEF RunInv, Failed
<1> QED
  BY <1>1, <1>2, <1>3, <1>4, <1>5

\* The operations on a file that was asked for are needed.
LEMMA FileNeeded ==
  ASSUME NEW paths, NEW k \in Kinds, paths[k] # NoPath
  PROVE  /\ Needed(paths, Program[WriteAt[k]])
         /\ Needed(paths, Program[PublishAt[k]])
         /\ Needed(paths, Program[DiscardAt[k]])
<1>1. \A w \in {"write", "publish", "discard"} : Needed(paths, Operation(w, k))
  BY DEF Needed, Operation
<1>2. /\ Program[WriteAt[k]] = Operation("write", k)
      /\ Program[PublishAt[k]] = Operation("publish", k)
      /\ Program[DiscardAt[k]] = Operation("discard", k)
  BY Placed
<1> QED
  BY <1>1, <1>2

\* Going on passes the operation just performed, and no other that is needed.
LEMMA Passing ==
  ASSUME NEW paths, NEW i \in 0..18
  PROVE  LET n == From(paths, i + 1) IN
         /\ n \in 1..19 /\ n > i
         /\ n # 19 => Needed(paths, Program[n])
         /\ \A k \in Kinds : paths[k] # NoPath =>
              /\ n > WriteAt[k] <=> i >= WriteAt[k]
              /\ n > PublishAt[k] <=> i >= PublishAt[k]
              /\ n > DiscardAt[k] <=> i >= DiscardAt[k]
         /\ n > PrintAt /\ i < PrintAt =>
              ~(paths["report"] = NoPath /\ paths["logits"] = NoPath)
<1> DEFINE n == From(paths, i + 1)
<1>1. /\ n \in (i + 1)..19
      /\ n # 19 => Needed(paths, Program[n])
      /\ \A h \in (i + 1)..18 : Needed(paths, Program[h]) => n <= h
  BY Onward
<1> HIDE DEF n
<1>2. ASSUME NEW k \in Kinds, paths[k] # NoPath
      PROVE  /\ n > WriteAt[k] <=> i >= WriteAt[k]
             /\ n > PublishAt[k] <=> i >= PublishAt[k]
             /\ n > DiscardAt[k] <=> i >= DiscardAt[k]
  <2>1. WriteAt[k] \in 1..18 /\ PublishAt[k] \in 1..18 /\ DiscardAt[k] \in 1..18
    BY Placed
  <2>2. /\ Needed(paths, Program[WriteAt[k]])
        /\ Needed(paths, Program[PublishAt[k]])
        /\ Needed(paths, Program[DiscardAt[k]])
    BY <1>2, FileNeeded
  <2> QED
    BY <1>1, <2>1, <2>2
<1>3. ASSUME n > PrintAt, i < PrintAt
      PROVE  ~(paths["report"] = NoPath /\ paths["logits"] = NoPath)
  <2>1. ~Needed(paths, Program[14])
    BY <1>1, <1>3 DEF PrintAt
  <2>2. Program[14].does = "print" /\ Program[14].of \notin Kinds
    BY ProgramLength DEF Order, Operation, Kinds
  <2> QED
    BY <2>1, <2>2 DEF Needed
<1> QED
  BY <1>1, <1>2, <1>3 DEF n

\* What an operation that succeeds does to the place of its run.
Goes(r) ==
  /\ at' \in [Runs -> 1..19]
  /\ \A s \in Runs \ {r} : at'[s] = at[s]
  /\ at'[r] > at[r]
  /\ at'[r] # 19 => Needed(path[r], Program[at'[r]])
  /\ \A k \in Wanted(r) : /\ at'[r] > WriteAt[k] <=> at[r] >= WriteAt[k]
                          /\ at'[r] > PublishAt[k] <=> at[r] >= PublishAt[k]
                          /\ at'[r] > DiscardAt[k] <=> at[r] >= DiscardAt[k]
  /\ at'[r] > PrintAt /\ at[r] < PrintAt => Silent(r)

\* What succeeds goes on to the next operation that the run needs.
LEMMA Advancing ==
  ASSUME IInv, NEW r \in Runs, at[r] # 19, Advance(r)
  PROVE  Goes(r)
<1>1. at \in [Runs -> 1..19] /\ at[r] \in 0..18
  BY DEF IInv, TypeOK
<1>2. at'[r] = From(path[r], at[r] + 1) /\ \A s \in Runs \ {r} : at'[s] = at[s]
  BY <1>1 DEF Advance
<1>3. /\ at'[r] \in 1..19 /\ at'[r] > at[r]
      /\ at'[r] # 19 => Needed(path[r], Program[at'[r]])
      /\ \A k \in Kinds : path[r][k] # NoPath =>
           /\ at'[r] > WriteAt[k] <=> at[r] >= WriteAt[k]
           /\ at'[r] > PublishAt[k] <=> at[r] >= PublishAt[k]
           /\ at'[r] > DiscardAt[k] <=> at[r] >= DiscardAt[k]
      /\ at'[r] > PrintAt /\ at[r] < PrintAt =>
           ~(path[r]["report"] = NoPath /\ path[r]["logits"] = NoPath)
  BY <1>1, <1>2, Passing
<1>4. at' \in [Runs -> 1..19]
  BY <1>1, <1>3 DEF Advance
<1> QED
  BY <1>2, <1>3, <1>4 DEF Goes, Wanted, Silent

\* Stage, Generate, Write and PrintReport change no flag and no destination: the
\* invariant stays if the temporary files of the run are what it says they are.
LEMMA Prepares ==
  ASSUME IInv, NEW r \in Runs, at[r] # 19, ~Does(r, "discard"), ~Does(r, "publish"),
         Goes(r), UNCHANGED <<path, published, told, exit, disk, replaced>>,
         temp' \in [Runs -> [Kinds -> States]], torn' \in [Runs -> BOOLEAN],
         screen' \in [Runs -> {"blank", "partial", "whole"}],
         \A s \in Runs \ {r} : temp'[s] = temp[s] /\ screen'[s] = screen[s],
         at[r] = PrintAt => screen'[r] = "whole",
         at[r] # PrintAt => screen'[r] = screen[r],
         \A k \in Kinds : temp'[r][k] # temp[r][k] =>
           /\ k \in Wanted(r) /\ at[r] <= WriteAt[k]
           /\ at[r] = WriteAt[k] => temp'[r][k] = "whole",
         \A k \in Wanted(r) : at[r] = WriteAt[k] => temp'[r][k] = "whole"
  PROVE  IInv'
<1>1. /\ at[r] \in 1..14 /\ Stands(at[r]) /\ Needed(path[r], Program[at[r]])
      /\ exit[r] = "running" /\ Accepted(path[r])
  BY Performing
<1>2. RunInv(r) /\ TypeOK
  BY DEF IInv
<1>3. Wanted(r)' = Wanted(r) /\ Silent(r)' = Silent(r)
  BY DEF Wanted, Silent
<1>4. TypeOK'
  BY <1>2 DEF TypeOK, Goes
<1>5. \A k \in Kinds : /\ at[r] # PublishAt[k]
                       /\ WriteAt[k] \in 1..14 /\ PublishAt[k] \in 1..14
                       /\ WriteAt[k] < PublishAt[k]
  BY <1>1, Placed, Doing
<1>6. Recorded(r)'
  BY <1>1, <1>2, <1>3 DEF RunInv, Recorded
<1>7. Working(r)'
  <2>1. at[r] \in Nat /\ at'[r] \in Nat
    BY <1>1 DEF Goes
  <2>2. ASSUME NEW k \in Wanted(r)
        PROVE  /\ k \in replaced'[r] <=> at'[r] > PublishAt[k]
               /\ at'[r] > WriteAt[k] /\ at'[r] <= PublishAt[k] => temp'[r][k] = "whole"
               /\ at'[r] > PublishAt[k] => temp'[r][k] = "none"
    <3>1. k \in Kinds
      BY DEF Wanted
    <3>2. /\ at'[r] > PublishAt[k] <=> at[r] > PublishAt[k]
          /\ at'[r] > WriteAt[k] <=> at[r] >= WriteAt[k]
      BY <1>5, <2>1, <3>1 DEF Goes
    <3>3. /\ k \in replaced[r] <=> at[r] > PublishAt[k]
          /\ at[r] > WriteAt[k] /\ at[r] <= PublishAt[k] => temp[r][k] = "whole"
          /\ at[r] > PublishAt[k] => temp[r][k] = "none"
      BY <1>1, <1>2 DEF RunInv, Working
    <3> QED
      BY <1>5, <2>1, <3>1, <3>2, <3>3
  <2>3. at'[r] > PrintAt => Silent(r) \/ screen'[r] = "whole"
    <3>1. at[r] > PrintAt => Silent(r) \/ screen[r] = "whole"
      BY <1>1, <1>2 DEF RunInv, Working
    <3> QED
      BY <2>1, <3>1 DEF Goes, PrintAt
  <2> QED
    BY <1>1, <1>3, <2>2, <2>3 DEF Working
<1>8. Failed(r)' /\ Concluded(r)'
  BY <1>1 DEF Failed, Concluded, Ended
<1>9. OnTheWay(r)'
  <2>1. \A k \in Kinds \ Wanted(r) : temp'[r][k] = "none"
    BY <1>2 DEF RunInv, OnTheWay
  <2> QED
    BY <1>1, <1>3, <2>1 DEF OnTheWay, Goes
<1>10. \A s \in Runs \ {r} : Same(s)
  BY DEF Goes, Same
<1>11. \A p \in Paths : Delivered(p)'
  BY Undelivered
<1> QED
  BY <1>4, <1>6, <1>7, <1>8, <1>9, <1>10, <1>11, OneMoves DEF RunInv

\* A file that is opened is a temporary of its own.
LEMMA StageInvariant == ASSUME IInv, NEW r \in Runs, Stage(r) PROVE IInv'
<1> DEFINE k == Current(r)
<1>1. at[r] # 19 /\ Program[at[r]].does = "stage" /\ Goes(r)
  BY Advancing, ProgramLength DEF Stage, Does
<1>2. Stands(at[r]) /\ Needed(path[r], Program[at[r]]) /\ at[r] \in 1..18
  BY <1>1, Performing
<1>3. k \in Kinds /\ at[r] = StageAt[k] /\ k \in Wanted(r)
  BY <1>1, <1>2 DEF Stands, Needed, Current, Wanted
<1>4. at[r] # PrintAt /\ \A j \in Kinds : at[r] # WriteAt[j]
  BY <1>1, <1>2, Doing
<1>5. at[r] < WriteAt[k]
  BY <1>3 DEF StageAt, WriteAt, Kinds
<1>6. temp \in [Runs -> [Kinds -> States]] /\ torn \in [Runs -> BOOLEAN]
      /\ screen \in [Runs -> {"blank", "partial", "whole"}]
  BY DEF IInv, TypeOK
<1>7. /\ temp' \in [Runs -> [Kinds -> States]]
      /\ \A s \in Runs \ {r} : temp'[s] = temp[s]
      /\ \A j \in Kinds \ {k} : temp'[r][j] = temp[r][j]
  BY <1>3, <1>6 DEF Stage, States
<1> HIDE DEF k
<1>8. \A j \in Kinds : temp'[r][j] # temp[r][j] =>
           /\ j \in Wanted(r) /\ at[r] <= WriteAt[j]
           /\ at[r] = WriteAt[j] => temp'[r][j] = "whole"
  BY <1>2, <1>3, <1>4, <1>5, <1>7, Placed
<1>9. /\ UNCHANGED <<path, torn, screen, published, told, exit, disk, replaced>>
      /\ ~Does(r, "discard") /\ ~Does(r, "publish")
  BY <1>1 DEF Stage, Does
<1> QED
  BY <1>1, <1>4, <1>6, <1>7, <1>8, <1>9, Prepares DEF Wanted

\* Generation touches no file.
LEMMA GenerateInvariant == ASSUME IInv, NEW r \in Runs, Generate(r) PROVE IInv'
<1>1. at[r] # 19 /\ Program[at[r]].does = "generate" /\ Goes(r)
  BY Advancing, ProgramLength DEF Generate, Does
<1>2. at[r] \in 1..18
  BY <1>1, Performing
<1>3. at[r] # PrintAt /\ \A j \in Kinds : at[r] # WriteAt[j]
  BY <1>1, <1>2, Doing
<1>4. /\ temp \in [Runs -> [Kinds -> States]] /\ torn' \in [Runs -> BOOLEAN]
      /\ screen \in [Runs -> {"blank", "partial", "whole"}]
  BY DEF IInv, TypeOK, Generate
<1>5. /\ UNCHANGED <<path, temp, screen, published, told, exit, disk, replaced>>
      /\ ~Does(r, "discard") /\ ~Does(r, "publish")
  BY <1>1 DEF Generate, Does
<1> QED
  BY <1>1, <1>3, <1>4, <1>5, Prepares DEF Wanted

\* A file is written under its temporary name only.
LEMMA WriteInvariant == ASSUME IInv, NEW r \in Runs, Write(r) PROVE IInv'
<1> DEFINE k == Current(r)
<1>1. at[r] # 19 /\ Program[at[r]].does = "write" /\ Goes(r)
  BY Advancing, ProgramLength DEF Write, Does
<1>2. Stands(at[r]) /\ Needed(path[r], Program[at[r]]) /\ at[r] \in 1..18
  BY <1>1, Performing
<1>3. k \in Kinds /\ at[r] = WriteAt[k] /\ k \in Wanted(r)
  BY <1>1, <1>2 DEF Stands, Needed, Current, Wanted
<1>4. at[r] # PrintAt /\ \A j \in Kinds : at[r] = WriteAt[j] => j = k
  BY <1>1, <1>2, Doing
<1>5. temp \in [Runs -> [Kinds -> States]] /\ torn \in [Runs -> BOOLEAN]
      /\ screen \in [Runs -> {"blank", "partial", "whole"}]
  BY DEF IInv, TypeOK
<1>6. /\ temp' \in [Runs -> [Kinds -> States]]
      /\ \A s \in Runs \ {r} : temp'[s] = temp[s]
      /\ \A j \in Kinds \ {k} : temp'[r][j] = temp[r][j]
      /\ temp'[r][k] = "whole"
  BY <1>3, <1>5 DEF Write, States
<1> HIDE DEF k
<1>7. /\ \A j \in Kinds : temp'[r][j] # temp[r][j] =>
           /\ j \in Wanted(r) /\ at[r] <= WriteAt[j]
           /\ at[r] = WriteAt[j] => temp'[r][j] = "whole"
      /\ \A j \in Wanted(r) : at[r] = WriteAt[j] => temp'[r][j] = "whole"
  BY <1>2, <1>3, <1>4, <1>6, Placed DEF Wanted
<1>8. /\ UNCHANGED <<path, torn, screen, published, told, exit, disk, replaced>>
      /\ ~Does(r, "discard") /\ ~Does(r, "publish")
  BY <1>1 DEF Write, Does
<1> QED
  BY <1>1, <1>4, <1>5, <1>6, <1>7, <1>8, Prepares

\* A report is printed once everything is published.
LEMMA PrintInvariant == ASSUME IInv, NEW r \in Runs, PrintReport(r) PROVE IInv'
<1>1. at[r] # 19 /\ Program[at[r]].does = "print" /\ Goes(r)
  BY Advancing, ProgramLength DEF PrintReport, Does
<1>2. at[r] \in 1..18
  BY <1>1, Performing
<1>3. at[r] = PrintAt /\ \A j \in Kinds : at[r] # WriteAt[j]
  BY <1>1, <1>2, Doing
<1>4. /\ temp \in [Runs -> [Kinds -> States]] /\ torn \in [Runs -> BOOLEAN]
      /\ screen' \in [Runs -> {"blank", "partial", "whole"}]
      /\ screen'[r] = "whole" /\ \A s \in Runs \ {r} : screen'[s] = screen[s]
  BY DEF IInv, TypeOK, PrintReport
<1>5. /\ UNCHANGED <<path, temp, torn, published, told, exit, disk, replaced>>
      /\ ~Does(r, "discard") /\ ~Does(r, "publish")
  BY <1>1 DEF PrintReport, Does
<1> QED
  BY <1>1, <1>3, <1>4, <1>5, Prepares DEF Wanted

\* A rename: the file was whole, and its place in the program says that the files
\* that must be there before it are.
LEMMA PublishInvariant == ASSUME IInv, NEW r \in Runs, Publish(r) PROVE IInv'
<1> DEFINE k == Current(r)
<1>1. at[r] # 19 /\ Program[at[r]].does = "publish" /\ Goes(r)
  BY Advancing, ProgramLength DEF Publish, Does
<1>2. /\ Stands(at[r]) /\ Needed(path[r], Program[at[r]]) /\ at[r] \in 1..18
      /\ Accepted(path[r])
  BY <1>1, Performing
<1>3. exit[r] = "running" /\ at[r] < 15
  BY <1>1, <1>2, Performing, Doing
<1>4. k \in Kinds /\ at[r] = PublishAt[k] /\ k \in Wanted(r)
  BY <1>1, <1>2 DEF Stands, Needed, Current, Wanted
<1>5. at[r] # PrintAt /\ \A j \in Kinds : at[r] = PublishAt[j] => j = k
  BY <1>1, <1>2, Doing
<1>6. RunInv(r) /\ TypeOK
  BY DEF IInv
<1>7. /\ path[r] \in [Kinds -> Paths \cup {NoPath}] /\ path[r][k] \in Paths
  BY <1>4, <1>6, PublicationAssumption DEF TypeOK, Wanted
<1>8. temp[r][k] = "whole"
  BY <1>3, <1>4, <1>6, Placed DEF RunInv, Working
<1>9. /\ UNCHANGED <<path, torn, screen, told, exit>>
      /\ disk' = [disk EXCEPT ![path[r][k]] = [by |-> r, kind |-> k, state |-> temp[r][k]]]
      /\ temp' = [temp EXCEPT ![r][k] = "none"]
      /\ published' = [published EXCEPT ![r] = @ \cup {k}]
      /\ replaced' = [replaced EXCEPT ![r] = @ \cup {k}]
  BY DEF Publish
<1> HIDE DEF k
<1>10. TypeOK'
  <2>1. temp' \in [Runs -> [Kinds -> States]]
    BY <1>4, <1>6, <1>9 DEF TypeOK, States
  <2>2. published' \in [Runs -> SUBSET Kinds] /\ replaced' \in [Runs -> SUBSET Kinds]
    BY <1>4, <1>6, <1>9 DEF TypeOK
  <2>3. disk' \in [Paths -> [by : Runs \cup {"before"}, kind : Kinds \cup {"none"}, state : States]]
    BY <1>4, <1>6, <1>7, <1>8, <1>9 DEF TypeOK, States
  <2> QED
    BY <1>1, <1>6, <1>9, <2>1, <2>2, <2>3 DEF TypeOK, Goes
<1>11. /\ replaced'[r] = replaced[r] \cup {k} /\ published'[r] = published[r] \cup {k}
       /\ temp'[r][k] = "none" /\ \A j \in Kinds \ {k} : temp'[r][j] = temp[r][j]
       /\ Wanted(r)' = Wanted(r) /\ Silent(r)' = Silent(r)
  BY <1>4, <1>6, <1>9 DEF TypeOK, Wanted, Silent
<1>12. \A j \in Wanted(r) : j \in replaced[r] <=> at[r] > PublishAt[j]
  BY <1>3, <1>6 DEF RunInv, Working
<1>13. Recorded(r)'
  <2>1. ASSUME k = "report" PROVE Wanted(r) \subseteq replaced[r] \cup {k}
    <3> SUFFICES ASSUME NEW j \in Wanted(r), j # "report" PROVE j \in replaced[r]
      BY <2>1
    <3>1. j # "logits"
      BY <1>2, <1>4, <2>1 DEF Accepted, Wanted, Kinds
    <3>2. PublishAt[j] < PublishAt["report"]
      BY <3>1 DEF Wanted, Kinds, PublishAt
    <3> QED
      BY <1>4, <1>12, <2>1, <3>2, Placed DEF Wanted
  <2> QED
    BY <1>3, <1>4, <1>6, <1>9, <1>11, <2>1, <1>2 DEF RunInv, Recorded
<1>14. Working(r)'
  <2>1. at[r] \in Nat /\ at'[r] \in Nat
    BY <1>1, <1>2 DEF Goes
  <2>2. ASSUME NEW j \in Wanted(r)
        PROVE  /\ j \in replaced'[r] <=> at'[r] > PublishAt[j]
               /\ at'[r] > WriteAt[j] /\ at'[r] <= PublishAt[j] => temp'[r][j] = "whole"
               /\ at'[r] > PublishAt[j] => temp'[r][j] = "none"
    <3>1. j \in Kinds /\ WriteAt[j] \in 1..14 /\ PublishAt[j] \in 1..14 /\ WriteAt[j] < PublishAt[j]
      BY Placed DEF Wanted
    <3>2. /\ at'[r] > PublishAt[j] <=> at[r] >= PublishAt[j]
          /\ at'[r] > WriteAt[j] <=> at[r] >= WriteAt[j]
      BY <1>1 DEF Goes
    <3>3. /\ at[r] > WriteAt[j] /\ at[r] <= PublishAt[j] => temp[r][j] = "whole"
          /\ at[r] > PublishAt[j] => temp[r][j] = "none"
      BY <1>3, <1>6 DEF RunInv, Working
    <3>4. CASE j = k
      BY <1>4, <1>11, <2>1, <3>1, <3>2, <3>4
    <3>5. CASE j # k
      <4>1. at[r] # PublishAt[j]
        BY <1>5, <3>1, <3>5
      <4>2. at[r] = WriteAt[j] => FALSE
        BY <1>1, <1>2, <3>1, Doing
      <4> QED
        BY <1>11, <1>12, <2>1, <3>1, <3>2, <3>3, <3>5, <4>1, <4>2
    <3> QED
      BY <3>4, <3>5
  <2>3. at'[r] > PrintAt => Silent(r) \/ screen'[r] = "whole"
    <3>1. at[r] > PrintAt => Silent(r) \/ screen[r] = "whole"
      BY <1>3, <1>6 DEF RunInv, Working
    <3> QED
      BY <1>1, <1>5, <1>9, <2>1, <3>1 DEF Goes, PrintAt
  <2> QED
    BY <1>3, <1>9, <1>11, <2>2, <2>3 DEF Working
<1>15. Failed(r)' /\ Concluded(r)'
  BY <1>3, <1>9 DEF Failed, Concluded, Ended
<1>16. OnTheWay(r)'
  <2>1. \A j \in Kinds \ Wanted(r) : temp'[r][j] = "none"
    BY <1>4, <1>6, <1>11 DEF RunInv, OnTheWay
  <2> QED
    BY <1>1, <1>3, <1>9, <1>11, <2>1 DEF OnTheWay, Goes
<1>17. \A s \in Runs \ {r} : Same(s)
  BY <1>1, <1>6, <1>9 DEF Goes, Same, TypeOK
<1>18. ASSUME NEW p \in Paths PROVE Delivered(p)'
  <2>1. CASE p = path[r][k]
    <3>1. disk'[p] = [by |-> r, kind |-> k, state |-> "whole"]
      BY <1>6, <1>7, <1>8, <1>9, <2>1 DEF TypeOK
    <3> QED
      BY <1>4, <1>9, <2>1, <3>1 DEF Delivered, Wanted
  <2>2. CASE p # path[r][k]
    <3>1. disk'[p] = disk[p]
      BY <1>6, <1>9, <2>2 DEF TypeOK
    <3>2. Delivered(p)
      BY DEF IInv
    <3> QED
      BY <1>9, <3>1, <3>2 DEF Delivered, Wanted
  <2> QED
    BY <2>1, <2>2
<1> QED
  BY <1>10, <1>13, <1>14, <1>15, <1>16, <1>17, <1>18, OneMoves DEF RunInv

\* A failure leaves for the cleanup with every temporary file still before its
\* discard, and tells what was replaced.
LEMMA FailInvariant == ASSUME IInv, NEW r \in Runs, Fail(r) PROVE IInv'
<1>1. /\ exit[r] = "running" /\ at[r] # 19 /\ ~Does(r, "discard")
      /\ at' = [at EXCEPT ![r] = From(path[r], 15)]
      /\ UNCHANGED <<path, temp, torn, published, disk, replaced>>
      /\ told' = [told EXCEPT ![r] = published[r]]
      /\ exit' = [exit EXCEPT ![r] = "failed"]
      /\ screen' = [screen EXCEPT ![r] = IF Does(r, "print") THEN "partial" ELSE @]
  BY ProgramLength DEF Fail
<1>2. RunInv(r) /\ TypeOK
  BY DEF IInv
<1> DEFINE n == From(path[r], 15)
<1>3. /\ n \in 1..19 /\ n > 14
      /\ n # 19 => Needed(path[r], Program[n])
      /\ \A k \in Kinds : path[r][k] # NoPath => (n > DiscardAt[k] <=> 14 >= DiscardAt[k])
  <2>1. 14 \in 0..18 /\ 14 + 1 = 15
    OBVIOUS
  <2> QED
    BY <2>1, Passing
<1> HIDE DEF n
<1>4. /\ at'[r] = n /\ exit'[r] = "failed" /\ told'[r] = published[r]
      /\ Wanted(r)' = Wanted(r) /\ Silent(r)' = Silent(r)
  BY <1>1, <1>2 DEF TypeOK, Wanted, Silent, n
<1>5. TypeOK'
  <2>1. /\ at' \in [Runs -> 1..19] /\ exit' \in [Runs -> Exits] /\ told' \in [Runs -> SUBSET Kinds]
        /\ screen' \in [Runs -> {"blank", "partial", "whole"}]
    BY <1>1, <1>2, <1>3 DEF TypeOK, Exits, n
  <2> QED
    BY <1>1, <1>2, <2>1 DEF TypeOK
<1>6. Recorded(r)'
  BY <1>1, <1>2, <1>4 DEF RunInv, Recorded
<1>7. Failed(r)'
  <2>1. ASSUME NEW k \in Kinds, temp'[r][k] # "none" PROVE n <= DiscardAt[k]
    <3>1. path[r][k] # NoPath
      BY <1>1, <1>2, <2>1 DEF RunInv, OnTheWay, Wanted
    <3> QED
      BY <1>3, <3>1, Placed
  <2> QED
    BY <1>1, <1>2, <1>3, <1>4, <2>1 DEF RunInv, Recorded, Failed
<1>8. Working(r)' /\ Concluded(r)'
  BY <1>4 DEF Working, Concluded, Ended
<1>9. OnTheWay(r)'
  BY <1>1, <1>2, <1>3, <1>4 DEF RunInv, OnTheWay
<1>10. \A s \in Runs \ {r} : Same(s)
  BY <1>1, <1>2 DEF Same, TypeOK
<1>11. \A p \in Paths : Delivered(p)'
  BY <1>1, Undelivered
<1> QED
  BY <1>5, <1>6, <1>7, <1>8, <1>9, <1>10, <1>11, OneMoves DEF RunInv

\* The cleanup takes away one file after the other.
LEMMA DiscardInvariant == ASSUME IInv, NEW r \in Runs, Discard(r) PROVE IInv'
<1> DEFINE k == Current(r)
<1>1. at[r] # 19 /\ Program[at[r]].does = "discard" /\ Goes(r)
  BY Advancing, ProgramLength DEF Discard, Does
<1>2. /\ Stands(at[r]) /\ Needed(path[r], Program[at[r]]) /\ at[r] \in 1..18
      /\ exit[r] \in {"running", "failed"}
  BY <1>1, Performing
<1>3. k \in Kinds /\ at[r] = DiscardAt[k] /\ at[r] >= 15
  BY <1>1, <1>2 DEF Stands, Current
<1>4. \A j \in Kinds : at[r] = DiscardAt[j] => j = k
  BY <1>1, <1>2, Doing
<1>5. RunInv(r) /\ TypeOK
  BY DEF IInv
<1>6. /\ UNCHANGED <<path, torn, published, screen, told, exit, disk, replaced>>
      /\ temp' = [temp EXCEPT ![r][k] = "none"]
  BY DEF Discard
<1> HIDE DEF k
<1>7. /\ temp'[r][k] = "none" /\ \A j \in Kinds \ {k} : temp'[r][j] = temp[r][j]
      /\ Wanted(r)' = Wanted(r) /\ Silent(r)' = Silent(r)
      /\ at[r] \in Nat /\ at'[r] \in 1..19 /\ at'[r] > at[r]
  BY <1>1, <1>2, <1>3, <1>5, <1>6 DEF TypeOK, Wanted, Silent, Goes
<1>8. TypeOK'
  <2>1. temp' \in [Runs -> [Kinds -> States]]
    BY <1>3, <1>5, <1>6 DEF TypeOK, States
  <2> QED
    BY <1>1, <1>5, <1>6, <2>1 DEF TypeOK, Goes
<1>9. Recorded(r)'
  BY <1>5, <1>6, <1>7 DEF RunInv, Recorded
<1>10. Working(r)'
  <2> SUFFICES ASSUME exit[r] = "running"
               PROVE /\ \A j \in Wanted(r) :
                          /\ j \in replaced[r] <=> at'[r] > PublishAt[j]
                          /\ at'[r] > WriteAt[j] /\ at'[r] <= PublishAt[j] => temp'[r][j] = "whole"
                          /\ at'[r] > PublishAt[j] => temp'[r][j] = "none"
                     /\ at'[r] > PrintAt => Silent(r) \/ screen[r] = "whole"
    BY <1>6, <1>7 DEF Working
  <2>1. ASSUME NEW j \in Wanted(r)
        PROVE  /\ j \in replaced[r] /\ temp'[r][j] = "none" /\ at'[r] > PublishAt[j]
    <3>1. j \in Kinds /\ PublishAt[j] \in 1..14
      BY Placed DEF Wanted
    <3> QED
      BY <1>3, <1>5, <1>7, <3>1 DEF RunInv, Working
  <2>2. Silent(r) \/ screen[r] = "whole"
    BY <1>3, <1>5, <1>7 DEF RunInv, Working, PrintAt
  <2>3. \A j \in Wanted(r) : PublishAt[j] \in Nat
    BY Placed DEF Wanted
  <2> QED
    BY <1>7, <2>1, <2>2, <2>3
<1>11. Failed(r)'
  <2> SUFFICES ASSUME exit[r] = "failed" PROVE Failed(r)'
    BY <1>6 DEF Failed
  <2>1. at[r] >= 15 /\ told[r] = replaced[r]
        /\ \A j \in Kinds : temp[r][j] # "none" => at[r] <= DiscardAt[j]
    BY <1>5 DEF RunInv, Failed
  <2>2. ASSUME NEW j \in Kinds, temp'[r][j] # "none" PROVE at'[r] <= DiscardAt[j]
    <3>1. j # k /\ temp[r][j] # "none"
      BY <1>7, <2>2
    <3>2. at[r] < DiscardAt[j] /\ DiscardAt[j] \in 1..18
      BY <1>4, <1>7, <2>1, <3>1, Placed
    <3>3. j \in Wanted(r)
      BY <1>5, <3>1 DEF RunInv, OnTheWay
    <3> QED
      BY <1>1, <1>7, <3>2, <3>3 DEF Goes
  <2> QED
    BY <1>6, <1>7, <2>1, <2>2 DEF Failed
<1>12. Concluded(r)'
  BY <1>2, <1>6 DEF Concluded, Ended
<1>13. OnTheWay(r)'
  <2>1. \A j \in Kinds \ Wanted(r) : temp'[r][j] = "none"
    BY <1>5, <1>7 DEF RunInv, OnTheWay
  <2> QED
    BY <1>1, <1>2, <1>6, <1>7, <2>1 DEF OnTheWay, Goes
<1>14. \A s \in Runs \ {r} : Same(s)
  BY <1>1, <1>5, <1>6 DEF Goes, Same, TypeOK
<1>15. \A p \in Paths : Delivered(p)'
  BY <1>6, Undelivered
<1> QED
  BY <1>8, <1>9, <1>10, <1>11, <1>12, <1>13, <1>14, <1>15, OneMoves DEF RunInv

\* At the end of the program all files of a run that goes on are published, and all
\* those of one that failed are gone.
LEMMA FinishInvariant == ASSUME IInv, NEW r \in Runs, Finish(r) PROVE IInv'
<1>1. /\ at[r] = 19 /\ exit[r] \in {"running", "failed"}
      /\ exit' = [exit EXCEPT ![r] = IF @ = "running" THEN "0" ELSE "1"]
      /\ UNCHANGED <<path, at, temp, torn, published, screen, told, disk, replaced>>
  BY ProgramLength DEF Finish
<1>2. RunInv(r) /\ TypeOK
  BY DEF IInv
<1>3. /\ exit'[r] = IF exit[r] = "running" THEN "0" ELSE "1"
      /\ Wanted(r)' = Wanted(r) /\ Silent(r)' = Silent(r)
  BY <1>1, <1>2 DEF TypeOK, Wanted, Silent
<1>4. TypeOK'
  <2>1. exit' \in [Runs -> Exits]
    BY <1>1, <1>2 DEF TypeOK, Exits
  <2> QED
    BY <1>1, <1>2, <2>1 DEF TypeOK
<1>5. Recorded(r)'
  BY <1>1, <1>2, <1>3 DEF RunInv, Recorded
<1>6. Working(r)' /\ Failed(r)'
  BY <1>1, <1>3 DEF Working, Failed
<1>7. ASSUME NEW k \in Kinds PROVE temp[r][k] = "none"
  <2>1. PublishAt[k] \in 1..14 /\ DiscardAt[k] \in 15..18
    BY Placed
  <2>2. CASE exit[r] = "running"
    BY <1>1, <1>2, <2>1, <2>2 DEF RunInv, Working, OnTheWay
  <2>3. CASE exit[r] = "failed"
    BY <1>1, <1>2, <2>1, <2>3 DEF RunInv, Failed
  <2> QED
    BY <1>1, <2>2, <2>3
<1>8. exit[r] = "running" => replaced[r] = Wanted(r) /\ (Silent(r) \/ screen[r] = "whole")
  <2> SUFFICES ASSUME exit[r] = "running"
               PROVE replaced[r] = Wanted(r) /\ (Silent(r) \/ screen[r] = "whole")
    OBVIOUS
  <2>1. \A k \in Wanted(r) : k \in replaced[r]
    BY <1>1, <1>2, Placed DEF RunInv, Working, Wanted
  <2> QED
    BY <1>1, <1>2, <2>1 DEF RunInv, Working, Recorded, PrintAt
<1>9. Concluded(r)'
  BY <1>1, <1>2, <1>3, <1>7, <1>8 DEF RunInv, Failed, Concluded
<1>10. OnTheWay(r)'
  BY <1>1, <1>2, <1>3 DEF RunInv, OnTheWay
<1>11. \A s \in Runs \ {r} : Same(s)
  BY <1>1, <1>2 DEF Same, TypeOK
<1>12. \A p \in Paths : Delivered(p)'
  BY <1>1, Undelivered
<1> QED
  BY <1>4, <1>5, <1>6, <1>9, <1>10, <1>11, <1>12, OneMoves DEF RunInv

\* A kill leaves everything where it is.
LEMMA CrashInvariant == ASSUME IInv, NEW r \in Runs, Crash(r) PROVE IInv'
<1>1. /\ exit[r] \in {"running", "failed"}
      /\ exit' = [exit EXCEPT ![r] = "killed"] /\ at' = [at EXCEPT ![r] = 19]
      /\ UNCHANGED <<path, temp, torn, published, screen, told, disk, replaced>>
  BY ProgramLength DEF Crash
<1>2. RunInv(r) /\ TypeOK
  BY DEF IInv
<1>3. /\ exit'[r] = "killed" /\ at'[r] = 19
      /\ Wanted(r)' = Wanted(r)
  BY <1>1, <1>2 DEF TypeOK, Wanted
<1>4. TypeOK'
  <2>1. exit' \in [Runs -> Exits] /\ at' \in [Runs -> 1..19]
    BY <1>1, <1>2 DEF TypeOK, Exits
  <2> QED
    BY <1>1, <1>2, <2>1 DEF TypeOK
<1>5. Recorded(r)'
  BY <1>1, <1>2, <1>3 DEF RunInv, Recorded
<1>6. Working(r)' /\ Failed(r)' /\ Concluded(r)'
  BY <1>3 DEF Working, Failed, Concluded, Ended
<1>7. OnTheWay(r)'
  BY <1>1, <1>2, <1>3 DEF RunInv, OnTheWay
<1>8. \A s \in Runs \ {r} : Same(s)
  BY <1>1, <1>2 DEF Same, TypeOK
<1>9. \A p \in Paths : Delivered(p)'
  BY <1>1, Undelivered
<1> QED
  BY <1>4, <1>5, <1>6, <1>7, <1>8, <1>9, OneMoves DEF RunInv

-------------------------------------------------------------------------------
\* A run that is refused is at its end, any other before its first operation.
LEMMA InitInvariant == Init => IInv
<1> SUFFICES ASSUME Init PROVE IInv
  OBVIOUS
<1>1. ASSUME NEW r \in Runs
      PROVE  /\ at[r] = IF Accepted(path[r]) THEN From(path[r], 1) ELSE 19
             /\ exit[r] = IF Accepted(path[r]) THEN "running" ELSE "usage"
             /\ temp[r] = [k \in Kinds |-> "none"]
             /\ published[r] = {} /\ replaced[r] = {}
  BY ProgramLength DEF Init
<1>2. ASSUME NEW r \in Runs
      PROVE  LET n == From(path[r], 1) IN
             /\ n \in 1..19
             /\ n # 19 => Needed(path[r], Program[n])
             /\ \A k \in Kinds : path[r][k] # NoPath => ~(n > WriteAt[k]) /\ ~(n > PublishAt[k])
             /\ n > PrintAt => Silent(r)
  <2>1. 0 \in 0..18 /\ 0 + 1 = 1 /\ 0 < PrintAt
    BY DEF PrintAt
  <2>2. \A k \in Kinds : WriteAt[k] > 0 /\ PublishAt[k] > 0
    BY Placed
  <2> DEFINE n == From(path[r], 1)
  <2>3. /\ n \in 1..19
        /\ n # 19 => Needed(path[r], Program[n])
        /\ \A k \in Kinds : path[r][k] # NoPath =>
             /\ n > WriteAt[k] <=> 0 >= WriteAt[k]
             /\ n > PublishAt[k] <=> 0 >= PublishAt[k]
        /\ n > PrintAt => ~(path[r]["report"] = NoPath /\ path[r]["logits"] = NoPath)
    BY <2>1, Passing
  <2> HIDE DEF n
  <2>4. \A k \in Kinds : WriteAt[k] \in Nat /\ PublishAt[k] \in Nat
    BY Placed
  <2> QED
    BY <2>2, <2>3, <2>4 DEF Silent, n
<1>3. TypeOK
  <2>1. at \in [Runs -> 1..19]
    BY <1>2, ProgramLength DEF Init
  <2>2. disk \in [Paths -> [by : Runs \cup {"before"}, kind : Kinds \cup {"none"}, state : States]]
    BY DEF Init, States
  <2>3. /\ path \in [Runs -> Options] /\ torn \in [Runs -> BOOLEAN]
        /\ temp \in [Runs -> [Kinds -> States]]
        /\ exit \in [Runs -> Exits]
        /\ screen \in [Runs -> {"blank", "partial", "whole"}]
    BY DEF Init, States, Exits
  <2>4. /\ published \in [Runs -> SUBSET Kinds] /\ replaced \in [Runs -> SUBSET Kinds]
        /\ told \in [Runs -> SUBSET Kinds]
    BY DEF Init
  <2> QED
    BY <2>1, <2>2, <2>3, <2>4 DEF TypeOK
<1>4. ASSUME NEW r \in Runs PROVE RunInv(r)
  <2>1. Recorded(r)
    BY <1>1 DEF Recorded, Wanted
  <2>2. Working(r)
    BY <1>1, <1>2 DEF Working, Wanted
  <2>3. Failed(r) /\ Concluded(r)
    BY <1>1 DEF Failed, Concluded, Ended
  <2>4. OnTheWay(r)
    BY <1>1, <1>2 DEF OnTheWay
  <2> QED
    BY <2>1, <2>2, <2>3, <2>4 DEF RunInv
<1>5. ASSUME NEW p \in Paths PROVE Delivered(p)
  <2>1. disk[p] = [by |-> "before", kind |-> "none", state |-> "whole"]
    BY DEF Init
  <2> QED
    BY <2>1, PublicationAssumption DEF Delivered
<1> QED
  BY <1>3, <1>4, <1>5 DEF IInv

\* A step that changes nothing keeps the invariant.
LEMMA StutterInvariant == ASSUME IInv, UNCHANGED vars PROVE IInv'
<1>1. UNCHANGED <<path, at, temp, torn, published, screen, told, exit, replaced, disk>>
  BY DEF vars, perRun
<1>2. TypeOK'
  BY <1>1 DEF IInv, TypeOK
<1>3. \A r \in Runs : RunInv(r)'
  <2> SUFFICES ASSUME NEW r \in Runs PROVE RunInv(r)'
    OBVIOUS
  <2>1. Same(r)
    BY <1>1 DEF Same
  <2> QED
    BY <2>1, OthersStay DEF IInv
<1>4. \A p \in Paths : Delivered(p)'
  BY <1>1, Undelivered
<1> QED
  BY <1>2, <1>3, <1>4 DEF IInv

\* How far each run has come, and what it put where, is the same story in the flags,
\* the temporary files, the history and the destinations: the invariant is inductive
\* for any number of runs and any destinations they share.
THEOREM Invariance == Spec => []IInv
<1>1. Init => IInv
  BY InitInvariant
<1>2. IInv /\ [Next]_vars => IInv'
  <2> SUFFICES ASSUME IInv, [Next]_vars PROVE IInv'
    OBVIOUS
  <2>1. CASE UNCHANGED vars
    BY <2>1, StutterInvariant
  <2>2. ASSUME NEW r \in Runs, Stage(r) PROVE IInv'
    BY <2>2, StageInvariant
  <2>3. ASSUME NEW r \in Runs, Generate(r) PROVE IInv'
    BY <2>3, GenerateInvariant
  <2>4. ASSUME NEW r \in Runs, Write(r) PROVE IInv'
    BY <2>4, WriteInvariant
  <2>5. ASSUME NEW r \in Runs, Publish(r) PROVE IInv'
    BY <2>5, PublishInvariant
  <2>6. ASSUME NEW r \in Runs, PrintReport(r) PROVE IInv'
    BY <2>6, PrintInvariant
  <2>7. ASSUME NEW r \in Runs, Fail(r) PROVE IInv'
    BY <2>7, FailInvariant
  <2>8. ASSUME NEW r \in Runs, Discard(r) PROVE IInv'
    BY <2>8, DiscardInvariant
  <2>9. ASSUME NEW r \in Runs, Finish(r) PROVE IInv'
    BY <2>9, FinishInvariant
  <2>10. ASSUME NEW r \in Runs, Crash(r) PROVE IInv'
    BY <2>10, CrashInvariant
  <2> QED
    BY <2>1, <2>2, <2>3, <2>4, <2>5, <2>6, <2>7, <2>8, <2>9, <2>10 DEF Next, Step
<1> QED
  BY <1>1, <1>2, PTL DEF Spec

\* At no instant does a destination hold an unfinished file.
THEOREM WholeAtEveryInstant == Spec => []DestinationsWhole
<1>1. IInv => DestinationsWhole
  BY DEF IInv, Delivered, DestinationsWhole
<1> QED
  BY <1>1, Invariance, PTL

\* The first destination is replaced when each file of the run is finished, and the
\* report last: at[r] is behind a rename only if it is behind every write.
THEOREM ReportComesLast == Spec => []PublishedInOrder
<1>1. IInv => PublishedInOrder
  <2> SUFFICES ASSUME IInv, NEW r \in Runs
               PROVE /\ exit[r] = "running" /\ replaced[r] # {} =>
                          \A k \in Wanted(r) : k \in replaced[r] \/ temp[r][k] = "whole"
                     /\ "report" \in replaced[r] => Wanted(r) \subseteq replaced[r]
    BY DEF PublishedInOrder
  <2>1. RunInv(r) /\ at[r] \in 1..19
    BY DEF IInv, TypeOK
  <2>2. ASSUME exit[r] = "running", NEW j \in replaced[r], NEW k \in Wanted(r), k \notin replaced[r]
        PROVE  temp[r][k] = "whole"
    <3>1. /\ j \in Wanted(r) /\ Accepted(path[r])
          /\ at[r] > PublishAt[j] /\ at[r] <= PublishAt[k]
      BY <2>1, <2>2, Placed DEF RunInv, Recorded, Working, Wanted
    <3>2. j # "logits" /\ k # "logits"
      BY <2>2, <3>1 DEF Accepted, Wanted
    <3>3. PublishAt[j] > WriteAt[k]
      BY <3>1, <3>2 DEF Wanted, Kinds, PublishAt, WriteAt
    <3>4. at[r] > WriteAt[k]
      BY <2>1, <3>1, <3>3, Placed DEF Wanted
    <3> QED
      BY <2>1, <2>2, <3>1, <3>4 DEF RunInv, Working
  <2> QED
    BY <2>1, <2>2 DEF RunInv, Recorded
<1> QED
  BY <1>1, Invariance, PTL

\* Exit status and diagnostics name exactly the destinations that were replaced, and
\* no run overwrites one of its own outputs.
THEOREM StatusIsTrue == Spec => []ExitHonest
<1>1. IInv => ExitHonest
  <2> SUFFICES ASSUME IInv, NEW r \in Runs
               PROVE /\ exit[r] = "0" =>
                          /\ replaced[r] = Wanted(r)
                          /\ path[r]["report"] = NoPath /\ path[r]["logits"] = NoPath =>
                               screen[r] = "whole"
                     /\ exit[r] = "1" => told[r] = replaced[r]
                     /\ \A k \in replaced[r] :
                          disk[path[r][k]].by = r => disk[path[r][k]].kind = k
    BY DEF ExitHonest
  <2>1. RunInv(r) /\ TypeOK
    BY DEF IInv
  <2>2. ASSUME NEW k \in replaced[r], disk[path[r][k]].by = r PROVE disk[path[r][k]].kind = k
    <3>1. k \in Wanted(r) /\ Accepted(path[r])
      BY <2>1 DEF RunInv, Recorded
    <3>2. path[r][k] \in Paths
      BY <2>1, <3>1, PublicationAssumption DEF TypeOK, Wanted
    <3> DEFINE j == disk[path[r][k]].kind
    <3>3. j \in Wanted(r) /\ path[r][j] = path[r][k]
      BY <2>2, <3>2 DEF IInv, Delivered
    <3> QED
      BY <3>1, <3>3 DEF Accepted, Wanted
  <2> QED
    BY <2>1, <2>2 DEF RunInv, Concluded, Silent
<1> QED
  BY <1>1, Invariance, PTL

\* A run that ends by itself leaves no temporary file.
THEOREM NothingLeftBehind == Spec => []NoLitter
<1>1. IInv => NoLitter
  BY DEF IInv, RunInv, Concluded, NoLitter
<1> QED
  BY <1>1, Invariance, PTL
===============================================================================
