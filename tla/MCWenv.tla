------------------------------ MODULE MCWenv ------------------------------
(***************************************************************************)
(* Instances of Wenv for TLC: lines of up to four commands, and groups and *)
(* loops over short lines.                                                 *)
(***************************************************************************)
EXTENDS Wenv

(* The lines of at most n of the items, each with every operator. *)
Operators == {"none", "and", "or", "queue", "else"}
LinesOf(items, n) ==
    UNION {{[i \in 1 .. k |-> [op |-> c[i].op, body |-> c[i].body,
                               sep |-> IF i = k THEN "none" ELSE s[i]]] :
              c \in [1 .. k -> items], s \in [1 .. k - 1 -> Operators]} : k \in 1 .. n}

Atom(op) == [op |-> op, body |-> <<>>]
Nested(op, line) == [op |-> op, body |-> line]
Alone(item) == <<[op |-> item.op, body |-> item.body, sep |-> "none"]>>
Command == Atom("command")

(* Groups, checks and loops over groups, alone, between commands, and a
   loop in a loop. *)
Check(op) == Nested("check", Alone(Atom(op)))
Simple == {Command, Atom("break"), Atom("continue")}
Inner == LinesOf(Simple, 2)
         \cup {Alone(c) : c \in {Atom("read"), Check("break"), Check("continue")}}
Group(line) == Nested("group", line)
Loop(line) == Nested("for", Alone(Group(line)))
Compound == {Group(l) : l \in Inner} \cup {Loop(l) : l \in Inner}
Around(c) ==
    LinesOf({c}, 1) \cup {l \in LinesOf({Command, c}, 3) :
        Cardinality({i \in DOMAIN l : l[i].op # "command"}) = 1}
InLoopLines ==
    {Alone(Loop(<<[op |-> "for", body |-> Alone(b), sep |-> s], a @@ [sep |-> "none"]>>)) :
        a \in Simple, b \in Simple \cup {Check("continue")}, s \in Operators}

MCPrograms == LinesOf({Command}, 4) \cup UNION {Around(c) : c \in Compound} \cup InLoopLines

(* The programs and what is in them, three levels deep. *)
Bodies(lines) == UNION {{l[i].body : i \in DOMAIN l} : l \in lines}
MCLines ==
    LET one == Bodies(MCPrograms)
        two == Bodies(one)
    IN MCPrograms \cup one \cup two \cup Bodies(two)
=============================================================================
