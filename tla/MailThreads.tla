----------------------------- MODULE MailThreads -----------------------------
(***************************************************************************)
(* What the mail store promises its readers: a mail appears with its       *)
(* thread, once, after every mail that was there before; nothing of it     *)
(* changes but that it is read, and it is read once.                       *)
(***************************************************************************)
EXTENDS Naturals

CONSTANTS Users, Ids

VARIABLES
    mails,      \* id |-> thread, parent (0: a root), from, to
    read        \* the ids that were read

threadVars == <<mails, read>>

Init ==
    /\ mails = [i \in {} |-> 0]
    /\ read = {}

\* A root is a thread of its own, a reply joins the thread of its parent.
Appear(id, parent, from, to) ==
    /\ \A i \in DOMAIN mails : i < id
    /\ parent \in {0} \cup DOMAIN mails
    /\ LET thread == IF parent = 0 THEN id ELSE mails[parent].thread
       IN  mails' = [i \in DOMAIN mails \cup {id} |->
                        IF i = id THEN [thread |-> thread, parent |-> parent, from |-> from, to |-> to]
                                  ELSE mails[i]]
    /\ UNCHANGED read

Read(id) ==
    /\ id \in DOMAIN mails
    /\ read' = read \cup {id}
    /\ UNCHANGED mails

Next ==
    \/ \E id \in Ids, parent \in {0} \cup Ids, from \in Users, to \in Users :
             Appear(id, parent, from, to)
    \/ \E id \in DOMAIN mails : Read(id)

Spec == Init /\ [][Next]_threadVars

=============================================================================
