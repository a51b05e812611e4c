------------------------------ MODULE AddrLock ------------------------------
(***************************************************************************)
(* What the point of serialisation promises, without any table.  A line    *)
(* address is a lock, and owners of two kinds meet at it.  A host asks for *)
(* an address and becomes its owner only when nobody owns it and no guest  *)
(* may turn out to.  A guest is let in without an address, because it is   *)
(* to evict a line whose name it has yet to learn; when it learns it, it   *)
(* becomes an owner whoever else is one.  So an address has one host at    *)
(* most, and never one after the other without a release between them.    *)
(* One step may concern several addresses, because one clock edge does.    *)
(***************************************************************************)
CONSTANTS Addr,   \* line addresses
          Owner,  \* what may own an address: the slots of the PoS table
          Reach   \* Reach[o]: the addresses o can come to own

VARIABLES owner,  \* owner[a]: the set of owners of address a
          guest,  \* the owners that are guests
          due     \* the guests that still wait for their address

lockVars == <<owner, guest, due>>

Init == owner = [a \in Addr |-> {}] /\ guest = {} /\ due = {}

Owns(o)      == {a \in Addr : o \in owner[a]}
NewGuests    == guest' \ guest
Newcomers(a) == owner'[a] \ owner[a]
Awaited(a)   == {g \in due : a \in Reach[g]}

\* A host gets a free address; otherwise only guests come, each to an address in its reach.
Admit(a) == /\ owner[a] = {} /\ Awaited(a) = {}
            /\ \E o \in Owner \ (guest \cup guest') : owner'[a] = {o}
Join(a)  == Newcomers(a) \subseteq Awaited(a)

\* A guest comes and goes with no address, and waits from when it comes to when it has one.
Guests == /\ guest' \subseteq Owner /\ NewGuests \subseteq due'
          /\ due' \subseteq guest' /\ due' \subseteq due \cup NewGuests
          /\ \A g \in NewGuests : Owns(g) = {}
          /\ \A g \in due' \cup (guest \ guest') : Owns(g)' = {}

Next == /\ owner' \in [Addr -> SUBSET Owner]
        /\ Guests
        /\ \A a \in Addr : Admit(a) \/ Join(a)

Spec == Init /\ [][Next]_lockVars
=============================================================================
