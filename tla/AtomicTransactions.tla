------------------------- MODULE AtomicTransactions -------------------------
(***************************************************************************)
(* What `Connection::transaction` promises its callers, with no SQL, no    *)
(* nesting counter and no engine behind it (src/database/connection.rs and *)
(* the comment on the SQLite implementation: "composing store calls stays  *)
(* atomic").                                                               *)
(*                                                                         *)
(* A connection runs a stack of transaction closures.  The writes of a     *)
(* closure that returns Ok pass to the closure around it, and become       *)
(* durable, all of them in one step, when there is none; the writes of a   *)
(* closure that returns Err are forgotten; a panic forgets the whole       *)
(* stack.  Nothing else ever changes what is durable.                      *)
(***************************************************************************)
EXTENDS Naturals, Sequences

CONSTANTS Connections,  \* the pooled connections
          Writes        \* identities of the row changes closures make

VARIABLES frames,   \* frames[c]: the running closures of c, outermost first,
                    \* each with the writes it has made so far
          durable,  \* the writes that survive
          result    \* result[c]: how the last outermost closure of c ended

vars == <<frames, durable, result>>

NoResult == [outcome |-> "none", writes |-> {}]
Ok(ws)   == [outcome |-> "ok",   writes |-> ws]
Err(ws)  == [outcome |-> "err",  writes |-> ws]

Results == [outcome : {"none", "ok", "err"}, writes : SUBSET Writes]

Top(stack) == stack[Len(stack)]
Pop(stack) == [i \in 1..Len(stack) - 1 |-> stack[i]]

\* Hands the writes of the innermost closure to the one around it, if any.
Merge(stack) ==
  [i \in 1..Len(stack) - 1 |->
     IF i = Len(stack) - 1 THEN stack[i] \cup Top(stack) ELSE stack[i]]

Init ==
  /\ frames = [c \in Connections |-> <<>>]
  /\ durable = {}
  /\ result = [c \in Connections |-> NoResult]

Enter(c) ==
  /\ frames' = [frames EXCEPT ![c] = Append(@, {})]
  /\ result' = [result EXCEPT ![c] = IF frames[c] = <<>> THEN NoResult ELSE @]
  /\ UNCHANGED durable

Work(c, w) ==
  /\ frames[c] # <<>>
  /\ frames' = [frames EXCEPT ![c][Len(frames[c])] = @ \cup {w}]
  /\ UNCHANGED <<durable, result>>

Succeed(c) ==
  /\ frames[c] # <<>>
  /\ frames' = [frames EXCEPT ![c] = Merge(@)]
  /\ IF Len(frames[c]) = 1
     THEN /\ durable' = durable \cup Top(frames[c])
          /\ result' = [result EXCEPT ![c] = Ok(Top(frames[c]))]
     ELSE UNCHANGED <<durable, result>>

Fail(c) ==
  /\ frames[c] # <<>>
  /\ frames' = [frames EXCEPT ![c] = Pop(@)]
  /\ result' = [result EXCEPT ![c] =
                  IF Len(frames[c]) = 1 THEN Err(Top(frames[c])) ELSE @]
  /\ UNCHANGED durable

Vanish(c) ==
  /\ frames' = [frames EXCEPT ![c] = <<>>]
  /\ UNCHANGED <<durable, result>>

Next ==
  \E c \in Connections :
    \/ Enter(c)
    \/ \E w \in Writes : Work(c, w)
    \/ Succeed(c)
    \/ Fail(c)
    \/ Vanish(c)

Spec == Init /\ [][Next]_vars
=============================================================================
