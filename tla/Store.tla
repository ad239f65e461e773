------------------------------- MODULE Store -------------------------------
(***************************************************************************)
(* What the statement queue of Model.cpp promises to the code that calls   *)
(* it: a database that applies every statement at once in the program's    *)
(* eyes, and whose file lags behind by a suffix of the statements.         *)
(*                                                                         *)
(* hist[1] is the file; every later element is the database after one more *)
(* statement that has been issued and not executed yet; the last element   *)
(* is the database as the program wrote it.  A failure may forget the      *)
(* suffix but never a statement out of the middle, and an answer given to  *)
(* the program is the whole database, with nothing left to execute.        *)
(***************************************************************************)
EXTENDS Sequences, Naturals

CONSTANT File      \* the values the database file can have
CONSTANT Fresh     \* its value on a first installation

VARIABLES hist,    \* the file and the databases ahead of it
          reply    \* <<>>, or <<f>> when the last call was answered with f

Latest == hist[Len(hist)]

Init == /\ hist = <<Fresh>>
        /\ reply = <<>>

\* A statement is issued; the call it belongs to is not answered yet, if it
\* is one that waits for an answer.
Issue == /\ \E f \in File : hist' = Append(hist, f)
         /\ reply' \in {reply, <<>>}

\* The file catches up by one statement.
Execute == /\ Len(hist) > 1
           /\ hist' = Tail(hist)
           /\ reply' = reply

\* The file catches up with the last statement, which is answered.
Answer == /\ Len(hist) = 2
          /\ hist' = <<Latest>>
          /\ reply' = <<Latest>>

\* The statements not executed are forgotten.
Forget == /\ hist' = <<Head(hist)>>
          /\ reply' \in {reply, <<>>}

Next == Issue \/ Execute \/ Answer \/ Forget

vars == <<hist, reply>>

Spec == Init /\ [][Next]_vars
=============================================================================
