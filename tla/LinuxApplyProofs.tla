---------------------------- MODULE LinuxApplyProofs ----------------------------
(***************************************************************************)
(* Proofs about LinuxApply.  Under one update at a time (~crossed) the     *)
(* party that works on the files is alone with them, from the download to  *)
(* the removal of what is left; everything else follows from where it      *)
(* stands.                                                                 *)
(***************************************************************************)
EXTENDS LinuxApply, TLAPS

\* The helper works after the server's exit.
Taken == {"swap", "moved", "copy", "mode", "broken", "start", "clean"}

Quiet == \A b \in Applies : apply[b] \in {"none", "over"}

\* Nobody else counts on the files, and there is no other helper.
Alone == \A a, b \in Applies : a # b =>
            ~(Busy(a) /\ Busy(b)) /\ (helper[a] \in Over \/ helper[b] \in Over)

\* From the exit to the start nothing runs; then the new version.
TakenOver == \A a \in Applies : helper[a] \in Taken =>
                /\ Quiet /\ up \in {"none", "new"}
                /\ helper[a] # "clean" => up = "none"

Down == up = "none" => ~tidy /\ Quiet /\ \A a \in Applies : helper[a] # "wait"

\* What is where at each stage.
StageOK(a) ==
    /\ apply[a] = "verified" \/ helper[a] \in {"wait", "stop"} => staged = "new"
    /\ helper[a] \in {"stop", "swap", "broken"} => target \in Whole
    /\ helper[a] \in {"swap", "broken", "mode"} => staged \in {"new", "none"}
    /\ helper[a] \in {"moved", "copy"} => staged = "new" /\ backup \in Whole
    /\ helper[a] \in {"mode", "start", "clean"} => target = "new"

\* The program is missing only while a helper moves it, or when one was killed at that.
Kept == target \notin Whole =>
            /\ backup \in Whole /\ up = "none"
            /\ \E a \in Applies : helper[a] \in {"moved", "copy", "dead"}

\* Only the script of pkexec asks; a helper has its server's update behind it.
Handed == \A a \in Applies : /\ apply[a] # "asking"
                             /\ helper[a] # "none" => apply[a] \in {"exit", "over"}

Order == Handed /\ Alone /\ TakenOver /\ Down /\ (\A a \in Applies : StageOK(a)) /\ Kept

IInv == install # "opt" /\ ~crossed => Order

--------------------------------------------------------------------------------
LEMMA FaultTyped == ASSUME TypeOK, Fault PROVE faults' \in 0..MaxFaults
BY LinuxApplyAssumption DEF TypeOK, Fault, LinuxApplyAssumption

LEMMA WorksTyped == ASSUME TypeOK, NEW a \in Applies, Works(a) PROVE crossed' \in BOOLEAN
<1> DEFINE met == \E b \in Applies \ {a} : Busy(b)
<1>1. crossed' = (crossed \/ met)
  BY DEF Works
<1>2. (crossed \/ met) \in BOOLEAN
  BY Zenon
<1> QED
  BY <1>1, <1>2, Zenon

LEMMA GoneTyped ==
    ASSUME TypeOK, NEW now \in [Applies -> Stages], Gone(now)
    PROVE  /\ tidy' \in BOOLEAN /\ up' \in Whole \cup {"none"} /\ helper' \in [Applies -> Stages]
           /\ apply' \in [Applies -> {"none", "fetch", "write", "hash", "verified",
                                      "asking", "exit", "over"}]
<1>1. tidy' \in BOOLEAN /\ up' \in Whole \cup {"none"}
  BY DEF Gone
<1>2. \A b \in Applies : now[b] \in Stages
  OBVIOUS
<1>3. helper' \in [Applies -> Stages]
  BY <1>2 DEF Gone, Stages
<1>4. \A b \in Applies : (IF apply[b] = "none" THEN "none" ELSE "over")
                            \in {"none", "fetch", "write", "hash", "verified", "asking", "exit", "over"}
  OBVIOUS
<1>5. apply' = [b \in Applies |-> IF apply[b] = "none" THEN "none" ELSE "over"]
  BY DEF Gone
<1>6. apply' \in [Applies -> {"none", "fetch", "write", "hash", "verified", "asking", "exit", "over"}]
  BY <1>4, <1>5
<1> QED
  BY <1>1, <1>3, <1>6

\* The variables keep their types: every action, of the server, the helper and the script.
THEOREM TypeCorrect == Spec => []TypeOK
<1> USE DEF Whole, Content, Stages, Over
<1>1. Init => TypeOK
  <2> SUFFICES ASSUME Init PROVE TypeOK
    OBVIOUS
  <2>1. tidy \in BOOLEAN /\ crossed \in BOOLEAN
    BY Zenon DEF Init
  <2>6. faults \in 0..MaxFaults
    BY LinuxApplyAssumption DEF Init, LinuxApplyAssumption
  <2>2. install \in Installs /\ across \in Across /\ staged \in Content \ {"old"}
          /\ target \in Content /\ backup \in Content /\ up \in Whole \cup {"none"}
    BY DEF Init
  <2>3. apply = [a \in Applies |-> "none"] /\ helper = [a \in Applies |-> "none"]
    BY DEF Init
  <2>4. apply \in [Applies -> {"none", "fetch", "write", "hash", "verified", "asking", "exit", "over"}]
    BY <2>3
  <2>5. helper \in [Applies -> Stages]
    BY <2>3
  <2> QED
    BY <2>1, <2>2, <2>4, <2>5, <2>6 DEF TypeOK
<1>2. TypeOK /\ [Next]_vars => TypeOK'
  <2> SUFFICES ASSUME TypeOK, [Next]_vars PROVE TypeOK'
    OBVIOUS
  <2> USE DEF TypeOK, files
  <2>1. CASE Exits
    BY <2>1, GoneTyped DEF Exits
  <2>2. CASE Crashes
    BY <2>2, GoneTyped, FaultTyped DEF Crashes
  <2>3. CASE Tidies
    BY <2>3 DEF Tidies
  <2>4. CASE UserStarts
    BY <2>4 DEF UserStarts, Launch
  <2>5. ASSUME NEW a \in Applies, Server(a) PROVE TypeOK'
    <3>1. CASE Begins(a) \/ FetchFails(a)
      BY <3>1 DEF Begins, FetchFails
    <3>2. CASE Verifies(a) \/ Asks(a)
      BY <3>2 DEF Verifies, Asks
    <3>3. CASE Writes(a)
      BY <3>3, WorksTyped DEF Writes
    <3>4. CASE WriteFails(a) \/ HandFails(a)
      BY <3>4, FaultTyped DEF WriteFails, HandFails
    <3>5. ASSUME NEW ok \in BOOLEAN, Written(a, ok) PROVE TypeOK'
      BY <3>5, WorksTyped DEF Written
    <3>6. ASSUME NEW sums \in BOOLEAN, Rejects(a, sums) PROVE TypeOK'
      BY <3>6, WorksTyped DEF Rejects
    <3>7. CASE Declined(a) \/ Granted(a)
      BY <3>7 DEF Declined, Granted
    <3>8. CASE Hands(a)
      BY <3>8 DEF Hands
    <3> QED
      BY <2>5, <3>1, <3>2, <3>3, <3>4, <3>5, <3>6, <3>7, <3>8 DEF Server
  <2>6. ASSUME NEW a \in Applies, Helper(a) PROVE TypeOK'
    <3> USE DEF At, ScriptEnds
    <3>1. CASE Stops(a)
      <4>1. [helper EXCEPT ![a] = "swap"] \in [Applies -> Stages]
        OBVIOUS
      <4> QED
        BY <3>1, <4>1, GoneTyped DEF Stops
    <3>2. CASE Saves(a)
      BY <3>2, WorksTyped DEF Saves
    <3>3. CASE SaveFails(a)
      BY <3>3, FaultTyped DEF SaveFails
    <3>4. CASE Moves(a)
      BY <3>4, WorksTyped DEF Moves
    <3>5. CASE Copies(a)
      BY <3>5, WorksTyped DEF Copies
    <3>6. CASE MoveFails(a)
      BY <3>6, FaultTyped, WorksTyped DEF MoveFails, Undo
    <3>7. CASE Sets(a)
      BY <3>7 DEF Sets
    <3>8. CASE SetFails(a)
      BY <3>8, FaultTyped DEF SetFails
    <3>9. CASE Starts(a)
      BY <3>9 DEF Starts, Launch
    <3>10. CASE Retries(a)
      BY <3>10 DEF Retries
    <3>11. CASE GivesUp(a) \/ Cleans(a)
      BY <3>11, WorksTyped DEF GivesUp, Cleans
    <3> QED
      BY <2>6, <3>1, <3>2, <3>3, <3>4, <3>5, <3>6, <3>7, <3>8, <3>9, <3>10, <3>11 DEF Helper
  <2>7. ASSUME NEW a \in Applies, Dies(a) PROVE TypeOK'
    BY <2>7, FaultTyped DEF Dies, At
  <2>8. CASE UNCHANGED vars
    BY <2>8 DEF vars
  <2> QED
    BY <2>1, <2>2, <2>3, <2>4, <2>5, <2>6, <2>7, <2>8 DEF Next
<1> QED
  BY <1>1, <1>2, PTL DEF Spec

--------------------------------------------------------------------------------
LEMMA WorksAlone == ASSUME NEW a \in Applies, Works(a), ~crossed'
                    PROVE  ~crossed /\ \A b \in Applies \ {a} : ~Busy(b)
BY DEF Works

LEMMA ServerKeeps ==
    ASSUME TypeOK, install # "opt", Order, ~crossed', NEW a \in Applies, Server(a)
    PROVE  Order'
<1> USE DEF files, Over, Taken, Whole, Quiet, Busy, StageOK
<1>1. \A b \in Applies : helper[b] \notin Taken
  BY DEF Order, TakenOver, Server, Begins, FetchFails, Writes, WriteFails, Verifies, Written,
     Rejects, Asks, Declined, Granted, Hands, HandFails
<1>2. up # "none"
  BY DEF Order, Down, Server, Begins, FetchFails, Writes, WriteFails, Verifies, Written,
     Rejects, Asks, Declined, Granted, Hands, HandFails
<1>3. CASE Begins(a) \/ FetchFails(a) \/ Asks(a) \/ Declined(a)
  BY <1>1, <1>2, <1>3 DEF TypeOK, Order, Handed, Alone, TakenOver, Down, Kept, Begins, FetchFails, Asks, Declined
<1>4. CASE Writes(a)
  <2>1. ~crossed /\ \A b \in Applies \ {a} : ~Busy(b)
    BY <1>4, WorksAlone DEF Writes
  <2>2. Handed' /\ Alone'
    BY <1>1, <1>2, <1>4, <2>1 DEF TypeOK, Order, Handed, Alone, Writes
  <2>3. TakenOver' /\ Down'
    BY <1>1, <1>2, <1>4, <2>1 DEF TypeOK, Order, TakenOver, Down, Alone, Writes
  <2>4. \A b \in Applies : StageOK(b)'
    BY <1>1, <1>2, <1>4, <2>1 DEF TypeOK, Order, Handed, Alone, TakenOver, Kept, Writes
  <2>5. Kept'
    BY <1>1, <1>2, <1>4, <2>1 DEF TypeOK, Order, Kept, Writes
  <2> QED
    BY <2>2, <2>3, <2>4, <2>5 DEF Order
<1>5. CASE WriteFails(a) \/ HandFails(a)
  BY <1>1, <1>2, <1>5 DEF TypeOK, Order, Handed, Alone, TakenOver, Down, Kept, WriteFails, HandFails, Fault
<1>6. ASSUME NEW ok \in BOOLEAN, Written(a, ok) PROVE Order'
  <2>1. ~crossed /\ \A b \in Applies \ {a} : ~Busy(b)
    BY <1>6, WorksAlone DEF Written
  <2> QED
    BY <1>1, <1>2, <1>6, <2>1 DEF TypeOK, Order, Handed, Alone, TakenOver, Down, Kept, Written
<1>7. CASE Verifies(a)
  BY <1>1, <1>2, <1>7 DEF TypeOK, Order, Handed, Alone, TakenOver, Down, Kept, Verifies
<1>8. ASSUME NEW sums \in BOOLEAN, Rejects(a, sums) PROVE Order'
  <2>1. CASE sums
    <3>1. ~crossed /\ \A b \in Applies \ {a} : ~Busy(b)
      BY <1>8, <2>1, WorksAlone DEF Rejects
    <3>2. Handed' /\ Alone'
      BY <1>1, <1>2, <1>8, <2>1, <3>1 DEF TypeOK, Order, Handed, Alone, Rejects
    <3>3. TakenOver' /\ Down'
      BY <1>1, <1>2, <1>8, <2>1, <3>1 DEF TypeOK, Order, TakenOver, Down, Alone, Rejects
    <3>4. \A b \in Applies : StageOK(b)'
      BY <1>1, <1>2, <1>8, <2>1, <3>1 DEF TypeOK, Order, Handed, Alone, TakenOver, Kept, Rejects
    <3>5. Kept'
      BY <1>1, <1>2, <1>8, <2>1, <3>1 DEF TypeOK, Order, Kept, Rejects
    <3> QED
      BY <3>2, <3>3, <3>4, <3>5 DEF Order
  <2>2. CASE ~sums
    BY <1>1, <1>2, <1>8, <2>2 DEF TypeOK, Order, Handed, Alone, TakenOver, Down, Kept, Rejects
  <2> QED
    BY <2>1, <2>2
<1>9. CASE Hands(a)
  <2>5. \A b \in Applies \ {a} : ~Busy(b) /\ helper[b] \in Over
    <3>1. Busy(a)
      BY <1>9 DEF Hands
    <3> QED
      BY <1>1, <3>1 DEF TypeOK, Stages, Order, Alone
  <2>1. Handed' /\ Alone'
    BY <1>9, <2>5 DEF TypeOK, Order, Handed, Alone, Hands
  <2>2. TakenOver' /\ Down'
    BY <1>1, <1>2, <1>9 DEF TypeOK, Order, TakenOver, Down, Alone, Hands
  <2>3. \A b \in Applies : StageOK(b)'
    BY <1>1, <1>2, <1>9 DEF TypeOK, Order, Handed, Alone, TakenOver, Kept, Hands
  <2>4. Kept'
    BY <1>1, <1>2, <1>9 DEF TypeOK, Order, Kept, Hands
  <2> QED
    BY <2>1, <2>2, <2>3, <2>4 DEF Order
<1>10. ~Granted(a)
  BY DEF Granted, Order, Handed
<1> QED
  BY <1>3, <1>4, <1>5, <1>6, <1>7, <1>8, <1>9, <1>10 DEF Server

\* While a helper works nothing else does.
LEMMA HelperAlone ==
    ASSUME TypeOK, Order, NEW a \in Applies, helper[a] \in Taken
    PROVE  /\ Quiet /\ up \in {"none", "new"}
           /\ helper[a] # "clean" => up = "none" /\ ~tidy
           /\ \A b \in Applies \ {a} : helper[b] \in Over
BY DEF TypeOK, Order, TakenOver, Down, Alone, Taken, Over

LEMMA HelperKeeps ==
    ASSUME TypeOK, install # "opt", Order, ~crossed', NEW a \in Applies, Helper(a)
    PROVE  Order'
<1> USE DEF files, Over, Taken, Whole, Quiet, Busy, StageOK, At
<1> USE DEF TypeOK, Order, Handed, Alone, TakenOver, Down, Kept
<1>1. CASE Stops(a)
  BY <1>1 DEF Stops, Gone
<1>2. CASE Saves(a)
  BY <1>2, HelperAlone DEF Saves
<1>3. CASE SaveFails(a)
  BY <1>3, HelperAlone DEF SaveFails, Fault
<1>4. CASE Moves(a)
  BY <1>4, HelperAlone DEF Moves
<1>5. CASE Copies(a)
  BY <1>5, HelperAlone DEF Copies
<1>6. CASE MoveFails(a)
  BY <1>6, HelperAlone DEF MoveFails, Undo, Fault
<1>7. CASE Sets(a)
  BY <1>7, HelperAlone DEF Sets
<1>11. CASE SetFails(a)
  BY <1>11, HelperAlone DEF SetFails, Fault
<1>12. CASE Retries(a)
  BY <1>12, HelperAlone DEF Retries
<1>8. CASE GivesUp(a)
  BY <1>8, HelperAlone DEF GivesUp
<1>9. CASE Starts(a)
  BY <1>9, HelperAlone DEF Starts, Launch
<1>10. CASE Cleans(a)
  BY <1>10, HelperAlone DEF Cleans
<1> QED
  BY <1>1, <1>2, <1>3, <1>4, <1>5, <1>6, <1>7, <1>8, <1>9, <1>10, <1>11, <1>12 DEF Helper

\* The processes' ends and starts.
LEMMA OthersKeep ==
    ASSUME TypeOK, install # "opt", Order, ~crossed',
           Exits \/ Crashes \/ Tidies \/ UserStarts \/ \E a \in Applies : Dies(a)
    PROVE  Order'
<1> USE DEF files, Over, Taken, Whole, Quiet, Busy, StageOK
<1> USE DEF TypeOK, Order, Handed, Alone, TakenOver, Down, Kept
<1>1. CASE Exits
  BY <1>1 DEF Exits, Gone
<1>2. CASE Crashes
  BY <1>2 DEF Crashes, Gone, Fault
<1>3. CASE Tidies
  BY <1>3 DEF Tidies
<1>4. CASE UserStarts
  BY <1>4 DEF UserStarts, Launch
<1>5. ASSUME NEW a \in Applies, Dies(a) PROVE Order'
  BY <1>5 DEF Dies, At, Fault
<1> QED
  BY <1>1, <1>2, <1>3, <1>4, <1>5

\* Whoever has met others on the files has.
LEMMA CrossedStays == [Next]_vars /\ crossed => crossed'
<1> SUFFICES ASSUME [Next]_vars, crossed PROVE crossed'
  OBVIOUS
<1> USE DEF Works
<1>1. CASE Exits \/ Crashes \/ Tidies \/ UserStarts
  BY <1>1 DEF Exits, Crashes, Tidies, UserStarts
<1>2. ASSUME NEW a \in Applies, Server(a) PROVE crossed'
  BY <1>2 DEF Server, Begins, FetchFails, Writes, WriteFails, Verifies, Written,
     Rejects, Asks, Declined, Granted, Hands, HandFails
<1>3. ASSUME NEW a \in Applies, Helper(a) PROVE crossed'
  BY <1>3 DEF Helper, Stops, Saves, SaveFails, Moves, Copies, MoveFails, Sets, SetFails,
     Retries, GivesUp, Starts, Cleans
<1>4. CASE \E a \in Applies : Dies(a)
  BY <1>4 DEF Dies
<1>5. CASE UNCHANGED vars
  BY <1>5 DEF vars
<1> QED
  BY <1>1, <1>2, <1>3, <1>4, <1>5 DEF Next

LEMMA Inductive == Spec => []IInv
<1>1. Init => IInv
  BY DEF Init, IInv, Order, Handed, Alone, TakenOver, Taken, Over, Down, Quiet, Busy, StageOK,
         Kept, Whole
<1>2. TypeOK /\ IInv /\ [Next]_vars => IInv'
  <2> SUFFICES ASSUME TypeOK, IInv, [Next]_vars, install' # "opt", ~crossed' PROVE Order'
    BY DEF IInv
  <2>1. install' = install
    <3>1. CASE Exits \/ Crashes \/ Tidies \/ UserStarts
      BY <3>1 DEF Exits, Crashes, Tidies, UserStarts
    <3>2. ASSUME NEW a \in Applies, Server(a) PROVE install' = install
      BY <3>2 DEF Server, Begins, FetchFails, Writes, WriteFails, Verifies, Written,
         Rejects, Asks, Declined, Granted, Hands, HandFails
    <3>3. ASSUME NEW a \in Applies, Helper(a) PROVE install' = install
      BY <3>3 DEF Helper, Stops, Saves, SaveFails, Moves, Copies, MoveFails, Sets, SetFails,
         Retries, GivesUp, Starts, Cleans
    <3>4. CASE \E a \in Applies : Dies(a)
      BY <3>4 DEF Dies
    <3>5. CASE UNCHANGED vars
      BY <3>5 DEF vars
    <3> QED
      BY <3>1, <3>2, <3>3, <3>4, <3>5 DEF Next
  <2>2. Order
    BY <2>1, CrossedStays DEF IInv
  <2>3. CASE UNCHANGED vars
    BY <2>2, <2>3 DEF vars, files, Order, Handed, Alone, TakenOver, Down, Quiet, Busy, StageOK, Kept
  <2> QED
    BY <2>1, <2>2, <2>3, ServerKeeps, HelperKeeps, OthersKeep DEF Next
<1> QED
  BY <1>1, <1>2, TypeCorrect, PTL DEF Spec

\* Whatever step fails and whoever is killed, the program's file or its backup is a whole program,
\* and a helper at its end leaves one in its place: the restoring branch of swap_appimage, and
\* the retries of run_service_restart.
THEOREM AlwaysAProgram == Spec => []ProgramKept
<1>1. TypeOK /\ IInv => ProgramKept
  BY DEF IInv, ProgramKept, Order, Kept, Over, Whole
<1> QED
  BY <1>1, Inductive, TypeCorrect, PTL
================================================================================
