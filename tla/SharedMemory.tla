---------------------------- MODULE SharedMemory ----------------------------
(***************************************************************************)
(* What the TLM bus promises to its masters: a memory shared by calls.  A  *)
(* master makes one call at a time; the call takes effect in one instant   *)
(* between the time it is made and its return, on the cell it was made     *)
(* for; a write leaves its own data there, a read returns what the cell    *)
(* holds at that instant.  A call past the memory never takes effect.      *)
(***************************************************************************)
CONSTANTS Masters, Cells, Values,
          Calls         \* records of op, addr and data

VARIABLES mem,
          result,       \* what the last read of a master returned
          call          \* of each master: none, made, or done with an answer

NoCall == [stage |-> "none"]
Made(r) == [stage |-> "made", req |-> r]
Done(r, answer) == [stage |-> "done", req |-> r, answer |-> answer]

Sets(m, c) == call' = [call EXCEPT ![m] = c]

\* The memory and the results start with whatever they hold.
Init == /\ mem \in [Cells -> Values] /\ result \in [Masters -> Values]
        /\ call = [m \in Masters |-> NoCall]

Make(m) == /\ call[m].stage = "none"
           /\ \E r \in Calls : Sets(m, Made(r))
           /\ UNCHANGED <<mem, result>>

Write(m) == LET r == call[m].req
            IN  /\ call[m].stage = "made" /\ r.op = "write" /\ r.addr \in Cells
                /\ mem' = [mem EXCEPT ![r.addr] = r.data]
                /\ Sets(m, Done(r, r.data))
                /\ UNCHANGED result

Read(m) == LET r == call[m].req
           IN  /\ call[m].stage = "made" /\ r.op = "read" /\ r.addr \in Cells
               /\ Sets(m, Done(r, mem[r.addr]))
               /\ UNCHANGED <<mem, result>>

Return(m) == /\ call[m].stage = "done"
             /\ result' = IF call[m].req.op = "read"
                          THEN [result EXCEPT ![m] = call[m].answer] ELSE result
             /\ Sets(m, NoCall)
             /\ UNCHANGED mem

Next == \E m \in Masters : Make(m) \/ Write(m) \/ Read(m) \/ Return(m)

Spec == Init /\ [][Next]_<<mem, result, call>>
=============================================================================
