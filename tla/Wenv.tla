------------------------------- MODULE Wenv -------------------------------
(***************************************************************************)
(* How wenv, an extension of grub4dos, evaluates a line of commands        *)
(* (src/g4dext/wenv.c): commands joined by operators, groups in brackets   *)
(* and for loops, which nest.  A line is a sequence of items; an item is a *)
(* command, break, continue, a group, a loop, a check with a command       *)
(* behind it or the read of a file of commands, and carries the operator   *)
(* that follows it:                                                        *)
(*                                                                         *)
(*   none   " ; ", or the end of the line      and    " ]]& "              *)
(*   or     " ]]| "                            queue  " ]]] "              *)
(*   else   " ]]! "                                                        *)
(*                                                                         *)
(* The program nests calls of wenv_func and for_func; the model keeps them *)
(* as a stack of frames.  What a single command does is left open: it      *)
(* returns true or false and may set, clear or keep errnum, the error      *)
(* number it shares with grub4dos; what the lines of a file that is read   *)
(* do is left open as well.  The text of the commands, variables in them,  *)
(* and the copies that are made of them are left out: a loop only knows    *)
(* the round for which no text can be made.                                *)
(***************************************************************************)
EXTENDS Integers, Sequences, SequencesExt, FiniteSets

CONSTANTS
    Programs,    \* the lines that are evaluated
    Lines,       \* those, and the lines in their groups and loops
    MaxRounds    \* the longest range of a loop

Items == [op : {"command", "break", "continue", "group", "for", "check", "read"}, body : Lines,
          sep : {"none", "and", "or", "queue", "else"}]

ASSUME LinesAssumption ==
    /\ Programs \subseteq Lines /\ Lines \subseteq Seq(Items)
    /\ MaxRounds \in Nat

VARIABLES
    program,  \* the line main was called with
    stack,    \* the calls of wenv_func and for_func in progress, the last on top
    phase,    \* "run" or "returned": the frame on top goes on, or its callee is back
    ret,      \* what the last command or callee returned
    errnum,   \* grub4dos's error number is not 0
    flags,    \* wenv_flags: "none", "break" or "continue"
    level,    \* history: the number of loops around the last break or continue,
              \* less those that a round without text ended since
    loose     \* history: an error was set that no operator follows

vars == <<program, stack, phase, ret, errnum, flags, level, loose>>

(* A call of wenv_func: its line, the item it is at, and, as a history, the
   items that ran with what they returned. *)
LineFrame(line) == [kind |-> "line", line |-> line, at |-> 1, ran |-> <<>>]

(* A call of for_func: the command it repeats, the rounds it has left, and
   with how many left the text of a round cannot be made (0: none). *)
LoopFrame(body, rounds, cut) == [kind |-> "loop", body |-> body, left |-> rounds, cut |-> cut]

Top == Last(stack)
Below == Front(stack)
InLine == stack # <<>> /\ Top.kind = "line"
InLoop == stack # <<>> /\ Top.kind = "loop"
HasItem == InLine /\ Top.at <= Len(Top.line)
Item == Top.line[Top.at]
LoopsOf(frames) == {i \in DOMAIN frames : frames[i].kind = "loop"}
Loops == Cardinality(LoopsOf(stack))

Init ==
    /\ program \in Programs
    /\ stack = <<LineFrame(program)>>
    /\ phase = "run"
    /\ ret = FALSE
    /\ errnum \in BOOLEAN
    /\ flags = "none"
    /\ level = 0
    /\ loose = errnum

(***************************************************************************)
(* Which item comes next                                                   *)
(***************************************************************************)

\* Mutated: stops at the next separator of any kind.
BehindElse_AnySeparator(line, at) ==
    IF at + 1 < Len(line) THEN at + 2 ELSE Len(line) + 1

(* skip_next_next_cmd looking for STATUS_ELSE: the item behind the next
   ]]! of this line, past separators of every other kind. *)
BehindElse(line, at) ==
    LET elses == {k \in at + 1 .. Len(line) : line[k].sep = "else"}
    IN IF elses = {} THEN Len(line) + 1
       ELSE 1 + CHOOSE k \in elses : \A j \in elses : k <= j

(* The operators that let the next item run. *)
Passes(sep, r) == sep \in {"none", "queue"} \/ (sep = "and" /\ r) \/ (sep = "or" /\ ~r)

NextItem(line, at, r, f) ==
    IF f # "none" \/ line[at].sep = "else" THEN Len(line) + 1
    ELSE IF Passes(line[at].sep, r) THEN at + 1
    ELSE BehindElse(line, at)

\* Mutated: errnum is not reset.
ErrorAfter_Kept(sep, e, f) == e

(* An operator other than ; and ]]! clears the error of the item before it. *)
ErrorAfter(sep, e, f) == e /\ (f # "none" \/ sep \in {"none", "else"})

(* What wenv_func does when an item has returned r, with the error e and
   the flags f.  The item is known to have ran in the frame. *)
Proceed(frames, r, e, f) ==
    LET top == Last(frames)
        sep == top.line[top.at].sep
    IN /\ stack' = Append(Front(frames),
                          [top EXCEPT !.at = NextItem(top.line, top.at, r, f),
                                      !.ran = Append(@, [at |-> top.at, ret |-> r])])
       /\ errnum' = ErrorAfter(sep, e, f)
       /\ ret' = r
       /\ flags' = f
       /\ phase' = "run"

(***************************************************************************)
(* Items                                                                   *)
(***************************************************************************)

(* The commands of p_cmd_list but break and continue. *)
Commands == {"command", "for", "check", "read"}

\* No operator behind the item clears the error e.
Unhandled(e, f) == e /\ (f # "none" \/ Item.sep \in {"none", "else"})

(* A command that calls neither wenv_func nor for_func, or one of grub4dos
   that call or exec runs. *)
RunCommand ==
    /\ HasItem /\ phase = "run" /\ Item.op = "command"
    /\ \E r, e \in BOOLEAN :
          /\ e /\ ~errnum => ~r
          /\ Proceed(stack, r, e, flags)
          /\ loose' = (loose \/ Unhandled(e, flags))
    /\ UNCHANGED <<program, level>>

(* An unknown command, or one without the argument it needs, ends the
   whole line: with an error, or with the help text. *)
RefuseCommand ==
    /\ HasItem /\ phase = "run" /\ Item.op \in Commands
    /\ stack' = Below
    /\ phase' = "returned"
    /\ ret' = FALSE
    /\ errnum' \in {errnum, TRUE}
    /\ loose' = (loose \/ errnum')
    /\ UNCHANGED <<program, flags, level>>

(* check whose comparison is false or has no operator, and for whose range
   cannot be read: they return before what they would run. *)
FailCommand ==
    /\ HasItem /\ phase = "run" /\ Item.op \in {"for", "check"}
    /\ \E e \in BOOLEAN :
          /\ Proceed(stack, FALSE, e, flags)
          /\ loose' = (loose \/ Unhandled(e, flags))
    /\ UNCHANGED <<program, level>>

(* read_func calls wenv_func for every line of a file: wenv_flags is what
   the last of them leaves. *)
ReadCommands ==
    /\ HasItem /\ phase = "run" /\ Item.op = "read"
    /\ \E r, e \in BOOLEAN, f \in {"none", "break", "continue"} :
          /\ Proceed(stack, r, e, f)
          /\ level' = IF f = "none" THEN level ELSE Loops
          /\ loose' = (loose \/ Unhandled(e, f))
    /\ UNCHANGED program

(* break_func and continue_func. *)
LeaveRound ==
    /\ HasItem /\ phase = "run" /\ Item.op \in {"break", "continue"}
    /\ Proceed(stack, TRUE, errnum, Item.op)
    /\ level' = Loops
    /\ UNCHANGED <<program, loose>>

(* A group calls wenv_func for what is inside the brackets. *)
EnterGroup ==
    /\ HasItem /\ phase = "run" /\ Item.op = "group"
    /\ stack' = Append(stack, LineFrame(Item.body))
    /\ flags' = "none"
    /\ UNCHANGED <<program, phase, ret, errnum, level, loose>>

(* check calls wenv_func for the command behind a comparison that is true. *)
EnterCheck ==
    /\ HasItem /\ phase = "run" /\ Item.op = "check"
    /\ stack' = Append(stack, LineFrame(Item.body))
    /\ flags' = "none"
    /\ errnum' = FALSE
    /\ UNCHANGED <<program, phase, ret, level, loose>>

(* A loop over a range or over the lines of a file.  A variable in its
   text clears the error number when it is replaced. *)
EnterLoop ==
    /\ HasItem /\ phase = "run" /\ Item.op = "for"
    /\ \E rounds \in 0 .. MaxRounds : \E cut \in 0 .. rounds :
          stack' = Append(stack, LoopFrame(Item.body, rounds, cut))
    /\ ret' = FALSE
    /\ errnum' \in {errnum, FALSE}
    /\ UNCHANGED <<program, phase, flags, level, loose>>

(* The callee of an item of a line is back. *)
Resume ==
    /\ InLine /\ phase = "returned"
    /\ Proceed(stack, ret, errnum, flags)
    /\ UNCHANGED <<program, level, loose>>

(* wenv_func comes to the end of its line. *)
LineEnds ==
    /\ InLine /\ phase = "run" /\ ~HasItem
    /\ stack' = Below
    /\ phase' = "returned"
    /\ UNCHANGED <<program, ret, errnum, flags, level, loose>>

(***************************************************************************)
(* Loops                                                                   *)
(***************************************************************************)

(* One round: wenv_func on a fresh copy of the command, with the round's
   value in it. *)
StartRound ==
    /\ InLoop /\ phase = "run" /\ Top.left > Top.cut
    /\ stack' = Append(stack, LineFrame(Top.body))
    /\ flags' = "none"
    /\ UNCHANGED <<program, phase, ret, errnum, level, loose>>

(* replace has no room for the command with the round's value: for_func
   returns at once, without an error and without resetting wenv_flags.  A
   continue of the round before is then taken for one in the loop around. *)
RefuseRound ==
    /\ InLoop /\ phase = "run" /\ Top.left > 0 /\ Top.left = Top.cut
    /\ stack' = Below
    /\ phase' = "returned"
    /\ ret' = FALSE
    /\ level' = IF flags = "none" THEN level ELSE Loops - 1
    /\ UNCHANGED <<program, errnum, flags, loose>>

\* Mutated: wenv_flags are not reset.
Cleared_Kept(f) == f

(* wenv_flags at the end of for_func. *)
Cleared(f) == "none"

(* The range is used up. *)
RangeEnds ==
    /\ InLoop /\ phase = "run" /\ Top.left = 0
    /\ stack' = Below
    /\ phase' = "returned"
    /\ flags' = Cleared(flags)
    /\ UNCHANGED <<program, ret, errnum, level, loose>>

(* What ends the loop before its range does. *)
EndsLoop(f, e) == f = "break" \/ e

(* break ends the loop as its range does.  An error makes for_func return
   at once, and leaves wenv_flags as they are. *)
LeaveLoop ==
    /\ EndsLoop(flags, errnum)
    /\ stack' = Below
    /\ flags' = IF flags = "break" THEN Cleared(flags) ELSE flags
    /\ ret' = (ret /\ flags = "break")
    /\ UNCHANGED phase

\* Mutated: the counter stays.
NextRound_KeepRange ==
    /\ ~EndsLoop(flags, errnum)
    /\ phase' = "run"
    /\ UNCHANGED <<stack, ret, flags>>

NextRound ==
    /\ ~EndsLoop(flags, errnum)
    /\ stack' = Append(Below, [Top EXCEPT !.left = @ - 1])
    /\ phase' = "run"
    /\ UNCHANGED <<ret, flags>>

RoundOver ==
    /\ InLoop /\ phase = "returned"
    /\ LeaveLoop \/ NextRound
    /\ UNCHANGED <<program, errnum, level, loose>>

(***************************************************************************)
(* The specification                                                       *)
(***************************************************************************)

(* The line is entered again. *)
Again ==
    /\ stack = <<>>
    /\ stack' = <<LineFrame(program)>>
    /\ phase' = "run"
    /\ ret' = FALSE
    /\ errnum' \in BOOLEAN
    /\ loose' = errnum'
    /\ flags' = "none"
    /\ level' = 0
    /\ UNCHANGED program

Evaluate ==
    \/ RunCommand \/ RefuseCommand \/ FailCommand \/ ReadCommands \/ LeaveRound
    \/ EnterGroup \/ EnterCheck \/ EnterLoop \/ Resume \/ LineEnds
    \/ StartRound \/ RefuseRound \/ RangeEnds \/ RoundOver

Next == Evaluate \/ Again

Spec == Init /\ [][Next]_vars /\ WF_vars(Evaluate)

-----------------------------------------------------------------------------
(* The types of the state: a frame is never past the end of its line. *)
TypeOK ==
    /\ phase \in {"run", "returned"} /\ flags \in {"none", "break", "continue"}
    /\ {ret, errnum, loose} \subseteq BOOLEAN /\ level \in Nat
    /\ \A i \in DOMAIN stack :
          \/ stack[i].kind = "line" /\ stack[i].at \in 1 .. Len(stack[i].line) + 1
          \/ stack[i].kind = "loop" /\ stack[i].left \in stack[i].cut .. MaxRounds

LineFrames == {i \in DOMAIN stack : stack[i].kind = "line"}
RanAt(f) == {r.at : r \in ToSet(f.ran)}
Returned(f, k, v) == [at |-> k, ret |-> v] \in ToSet(f.ran)

(* The items before and behind a ]]! are alternatives (skip_next_next_cmd
   with STATUS_ELSE): never do both run, whatever stands between the
   condition and the ]]!; and of "A ]]& B ]]! C" and "A ]]| B ]]! C" one
   of B and C has run when the line is over, unless break or continue in A
   left it. *)
OneBranch ==
    \A i \in LineFrames : LET f == stack[i] IN
        \A k \in 1 .. Len(f.line) - 1 : f.line[k].sep = "else" =>
            /\ ~({k, k + 1} \subseteq RanAt(f))
            /\ k > 1 /\ f.line[k - 1].sep \in {"and", "or"} /\ k - 1 \in RanAt(f)
                  /\ f.at > Len(f.line) /\ flags = "none"
               => {k, k + 1} \cap RanAt(f) # {}

(* "]]&: when the command before it returned true the statement behind runs,
   otherwise return at once", and the reverse for ]]| (wenv-readme.txt:232):
   what is behind an operator that was not satisfied does not run, up to
   the next ]]!. *)
RunsAsAsked ==
    \A i \in LineFrames : LET f == stack[i] IN
        \A k, j \in RanAt(f) :
            (k < j /\ \A e \in k + 1 .. j - 1 : f.line[e].sep # "else")
               => \E r \in BOOLEAN : Returned(f, k, r) /\ Passes(f.line[k].sep, r)

(* The invariant of wenv_func: the types, and which statements of a line run. *)
LineInv == TypeOK /\ OneBranch /\ RunsAsAsked

(* break and continue give up everything that is left of the line and of
   the groups around it, up to the loop: until then the frames only go. *)
OnlyLeaves ==
    flags # "none" =>
        \/ Len(stack') < Len(stack)
        \/ InLine /\ stack'[Len(stack)].at > Len(Top.line)
        \/ InLoop \/ stack = <<>>

(* break and continue are for the loop they are in and for no other: while
   wenv_flags is set, as many loops are around as were then, unless an
   error has ended the loop; where a round without text ended it behind a
   continue, it is for the loop next around it. *)
LoopContained == flags # "none" /\ ~errnum => Loops = level

(* What break and continue leave is the innermost loop, all of it and no
   more; the one exception is a continue before a round for which no text
   can be made (wenv.c:1043, 1088): that one leaves the round of the loop
   around as well, and no more. *)
BreakContained == [][LoopContained' /\ OnlyLeaves]_vars

(* Where every command that fails is followed by an operator that handles
   it, a loop runs through its whole range, or up to the first round for
   which no text can be made, unless break leaves it. *)
RoundsRun ==
    [][InLoop /\ Len(stack') < Len(stack) /\ flags # "break" /\ ~loose
          => Top.left = Top.cut]_vars

(* Every line comes to its end. *)
LinesEnd == []<>(stack = <<>>)
=============================================================================
