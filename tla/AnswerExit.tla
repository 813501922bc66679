----------------------------- MODULE AnswerExit -----------------------------
(***************************************************************************)
(* What the exit promises, without handlers, calls or tables: the ledger   *)
(* says of each draft whether it was never tried ("none"), tried with an   *)
(* unknown result ("open") or is out ("out"); standing says which answer   *)
(* each post of the parent system carries.  An answer is put up only while *)
(* its attempt is open and only when it stands nowhere; the ledger forgets *)
(* an attempt only when the answer stands nowhere, and never forgets one   *)
(* that is out.                                                            *)
(***************************************************************************)
CONSTANTS Drafts, Posts, NoAnswer

VARIABLES ledger, standing

StandsNowhere(d) == \A p \in Posts : standing[p] # d

Init == /\ ledger = [d \in Drafts |-> "none"]
        /\ standing = [p \in Posts |-> NoAnswer]

Try(d) == /\ ledger[d] = "none"
          /\ ledger' = [ledger EXCEPT ![d] = "open"]
          /\ UNCHANGED standing

PutUp(d, p) == /\ ledger[d] = "open"
               /\ StandsNowhere(d)
               /\ standing' = [standing EXCEPT ![p] = d]
               /\ UNCHANGED ledger

Confirm(d) == /\ ledger[d] = "open"
              /\ ledger' = [ledger EXCEPT ![d] = "out"]
              /\ UNCHANGED standing

Forget(d) == /\ ledger[d] = "open"
             /\ StandsNowhere(d)
             /\ ledger' = [ledger EXCEPT ![d] = "none"]
             /\ UNCHANGED standing

Next == \E d \in Drafts : \/ Try(d)
                          \/ \E p \in Posts : PutUp(d, p)
                          \/ Confirm(d)
                          \/ Forget(d)

Spec == Init /\ [][Next]_<<ledger, standing>>

=============================================================================
