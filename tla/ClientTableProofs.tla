-------------------------- MODULE ClientTableProofs -------------------------
(***************************************************************************)
(* The client table is sound for every size and every set of clients.  The *)
(* difficulty is the entry that keeps the number of a closed descriptor:   *)
(* accept() may hand out that number again before the entry is cleared.    *)
(***************************************************************************)
EXTENDS ClientTable, FiniteSetTheorems, TLAPS

Stale(s) == revents[s] = {"NVAL"}

(* Events are only pending for entries in use, POLLNVAL comes alone, and   *)
(* anything else means that the number is open.                            *)
EventsSound ==
    \A s \in Slots : revents[s] # {} =>
      /\ fds[s] # Unused
      /\ Stale(s) \/ ("NVAL" \notin revents[s] /\ open[fds[s]] # Nobody)

(* Two entries share a number only if one of them is stale.                *)
SharedStale ==
    \A s, t \in Slots :
      s # t /\ fds[s] = fds[t] /\ fds[s] # Unused => Stale(s) \/ Stale(t)

(* While entry 0 is waiting to be served, so is every closed number: a     *)
(* number is never handed out behind an entry that poll() did not see.     *)
ClosedSeen ==
    revents[0] # {} =>
      \A s \in Slots : fds[s] # Unused /\ open[fds[s]] = Nobody => Stale(s)

(* A stale number that is open again is in a second entry, newly filled.   *)
Reused ==
    \A s \in Slots : Stale(s) /\ open[fds[s]] # Nobody =>
      \E t \in Slots : t # s /\ fds[t] = fds[s] /\ revents[t] = {}

Table ==
    /\ fds \in [Slots -> Numbers \cup {Unused}]
    /\ revents \in [Entries -> SUBSET Events]
    /\ open \in [Numbers -> Clients \cup {Nobody}]

IInv ==
    /\ Table
    /\ NfdsExact
    /\ EventsSound /\ SharedStale /\ ClosedSeen /\ Reused
    /\ NoLeak

Descriptors == EventsSound /\ SharedStale /\ ClosedSeen /\ Reused /\ NoLeak

LEMMA Numbering ==
    /\ Slots \subseteq Entries /\ 0 \in Entries /\ 0 \notin Slots
    /\ Unused \notin Numbers
    /\ IsFiniteSet(Slots) /\ Cardinality(Slots) = MAXFDS - 1
<1>1. IsFiniteSet(Slots) /\ Cardinality(Slots) = MAXFDS - 1
  BY FS_Interval, TableAssumption DEF Slots
<1> QED
  BY <1>1, TableAssumption DEF Slots, Entries, Unused, Numbers

-----------------------------------------------------------------------------
(* nfds.                                                                   *)
LEMMA UsedFinite == IsFiniteSet(Used) /\ Cardinality(Used) \in Nat
<1>1. Used \in SUBSET Slots
  BY DEF Used
<1> QED
  BY <1>1, Numbering, FS_Subset, FS_CardinalityType

LEMMA UsedAdd ==
    ASSUME Table, NfdsExact, NEW j \in Slots, fds[j] = Unused, NEW n \in Numbers,
           fds' = [fds EXCEPT ![j] = n], nfds' = nfds + 1
    PROVE  NfdsExact'
<1>1. Used' = Used \cup {j} /\ j \notin Used
  BY Numbering DEF Used, Table
<1>2. Cardinality(Used') = Cardinality(Used) + 1
  BY <1>1, UsedFinite, FS_AddElement
<1> QED
  BY <1>2, UsedFinite DEF NfdsExact

LEMMA UsedForget ==
    ASSUME Table, NfdsExact, NEW s \in Slots, fds[s] # Unused, Forget(s)
    PROVE  NfdsExact'
<1>1. Used' = Used \ {s} /\ s \in Used
  BY DEF Used, Table, Forget
<1>2. Cardinality(Used') = Cardinality(Used) - 1
  BY <1>1, UsedFinite, FS_RemoveElement
<1> QED
  BY <1>2, UsedFinite DEF NfdsExact, Forget

LEMMA UsedSame ==
    ASSUME NfdsExact, UNCHANGED <<fds, nfds>>
    PROVE  NfdsExact'
BY DEF NfdsExact, Used

LEMMA Available == NfdsExact => SlotAvailable
BY Numbering, TableAssumption DEF NfdsExact, SlotAvailable

-----------------------------------------------------------------------------
LEMMA InitIInv == Init => IInv
<1> SUFFICES ASSUME Init PROVE IInv
  OBVIOUS
<1>1. Table
  BY DEF Init, Table
<1>2. NfdsExact
  <2>1. Used = {}
    BY DEF Used, Init
  <2> QED
    BY <2>1, FS_EmptySet DEF NfdsExact, Init
<1>3. \A e \in Entries : revents[e] = {}
  BY DEF Init
<1>4. \A s \in Slots : revents[s] = {} /\ fds[s] = Unused
  BY <1>3, Numbering DEF Init
<1> QED
  BY <1>1, <1>2, <1>3, <1>4, Numbering
     DEF Init, IInv, EventsSound, SharedStale, ClosedSeen, Reused, Stale, NoLeak

(* The clients and a connection that is refused change nothing here.       *)
LEMMA SameIInv ==
    ASSUME IInv, UNCHANGED <<fds, revents, nfds, open>>
    PROVE  IInv'
<1>1. NfdsExact'
  BY UsedSame DEF IInv
<1> QED
  BY <1>1 DEF IInv, Table, EventsSound, SharedStale, ClosedSeen, Reused, Stale, NoLeak

LEMMA PollIInv == IInv /\ Poll => IInv'
<1> SUFFICES ASSUME IInv, Poll PROVE IInv'
  OBVIOUS
<1>1. Table' /\ NfdsExact' /\ NoLeak'
  BY UsedSame DEF Poll, IInv, Table, NoLeak
<1>2. \A s \in Slots : revents[s] = {} /\ revents'[s] \in SlotEvents(s)
  BY Numbering DEF Poll, Pending, EntryEvents
<1>3. \A s \in Slots :
        /\ fds[s] = Unused => revents'[s] = {}
        /\ fds[s] # Unused /\ open[fds[s]] = Nobody => revents'[s] = {"NVAL"}
        /\ fds[s] # Unused /\ open[fds[s]] # Nobody => "NVAL" \notin revents'[s]
  BY <1>2 DEF SlotEvents
<1>4. UNCHANGED <<fds, open>>
  BY DEF Poll
<1>5. EventsSound' /\ ClosedSeen' /\ Reused'
  BY <1>3, <1>4 DEF EventsSound, ClosedSeen, Reused, Stale
<1>6. \A s, t \in Slots : s # t /\ fds[s] = fds[t] => fds[s] = Unused
  BY <1>2 DEF IInv, SharedStale, Stale
<1>7. SharedStale'
  BY <1>4, <1>6 DEF SharedStale
<1> QED
  BY <1>1, <1>5, <1>7 DEF IInv

(* Entry 0 is served without a new client.                                 *)
LEMMA ListenIInv ==
    ASSUME IInv, Served(0), UNCHANGED <<fds, nfds, open>>
    PROVE  IInv'
<1>1. NfdsExact'
  BY UsedSame DEF IInv
<1>2. revents' \in [Entries -> SUBSET Events] /\ revents'[0] = {}
  BY Numbering DEF Served, IInv, Table
<1>3. \A s \in Slots : revents'[s] = revents[s]
  BY Numbering DEF Served, IInv, Table
<1> QED
  BY <1>1, <1>2, <1>3
     DEF IInv, Table, EventsSound, SharedStale, ClosedSeen, Reused, Stale, NoLeak

(* The backlog, for accept() to have a client to take from it.             *)
Queue == backlog \in Seq(Clients)

LEMMA NextQueue == Queue /\ [Next]_vars => Queue'
<1> SUFFICES ASSUME Queue, [Next]_vars PROVE Queue'
  OBVIOUS
<1>1. CASE Accept
  BY <1>1 DEF Accept, Queue
<1>2. CASE Poll \/ Delay \/ AcceptFails \/ UNCHANGED vars
  BY <1>2 DEF Poll, Delay, AcceptFails, vars, Queue
<1>3. ASSUME NEW s \in Slots, Disconnect(s) \/ Command(s) \/ Shutdown(s) \/ Hang(s)
      PROVE  Queue'
  <2>1. backlog' \in {backlog, << >>}
    BY <1>3, Zenon DEF Disconnect, Command, Shutdown, Hang
  <2>2. << >> \in Seq(Clients)
    OBVIOUS
  <2> QED
    BY <2>1, <2>2, Zenon DEF Queue
<1>4. ASSUME NEW c \in Clients,
             Connect(c) \/ Leave(c) \/ \E m \in Commands : Send(c, m)
      PROVE  Queue'
  BY <1>4 DEF Connect, Leave, Send, Queue
<1> QED
  BY <1>1, <1>2, <1>3, <1>4 DEF Next, Daemon

LEMMA AcceptIInv == IInv /\ Queue /\ Accept => IInv'
<1> SUFFICES ASSUME IInv, Queue, Accept PROVE IInv'
  OBVIOUS
<1>1. PICK j \in Slots, n \in Numbers :
        /\ fds[j] = Unused /\ open[n] = Nobody
        /\ fds' = [fds EXCEPT ![j] = n]
        /\ open' = [open EXCEPT ![n] = Head(backlog)]
  BY DEF Accept
<1> DEFINE c == Head(backlog)
<1>2. c \in Clients /\ c # Nobody
  BY TableAssumption DEF Accept, Queue
<1>3. revents[0] # {}
  BY DEF Accept, Serving, Pending
<1>4. /\ revents' \in [Entries -> SUBSET Events] /\ revents'[0] = {}
      /\ \A s \in Slots : revents'[s] = revents[s]
  BY Numbering DEF Accept, Served, IInv, Table
<1>5. Table'
  BY <1>1, <1>2, <1>4 DEF IInv, Table
<1>6. NfdsExact'
  BY <1>1, UsedAdd DEF Accept, IInv
<1>7. /\ \A s \in Slots : s # j => fds'[s] = fds[s]
      /\ fds'[j] = n /\ n # Unused
      /\ \A m \in Numbers : m # n => open'[m] = open[m]
      /\ open'[n] # Nobody
  BY <1>1, <1>2, Numbering DEF IInv, Table
<1>8. \A s \in Slots : fds[s] \in Numbers \/ fds[s] = Unused
  BY DEF IInv, Table
<1>9. revents[j] = {}
  BY <1>1 DEF IInv, EventsSound
<1>10. \A s \in Slots : fds[s] = n => Stale(s)
  BY <1>1, <1>3, Numbering DEF IInv, ClosedSeen
<1>11. EventsSound'
  BY <1>4, <1>7, <1>8, <1>9 DEF IInv, EventsSound, Stale
<1>12. SharedStale'
  BY <1>4, <1>7, <1>10 DEF IInv, SharedStale, Stale
<1>13. Reused'
  BY <1>1, <1>4, <1>7, <1>8, <1>9, Numbering DEF IInv, Reused, Stale, EventsSound
<1>14. ClosedSeen' /\ NoLeak'
  BY <1>1, <1>4, <1>7, Numbering DEF IInv, ClosedSeen, NoLeak
<1> QED
  BY <1>5, <1>6, <1>11, <1>12, <1>13, <1>14 DEF IInv

-----------------------------------------------------------------------------
(* Serving a client entry.                                                 *)
LEMMA ServingSlot ==
    ASSUME IInv, NEW s \in Slots, Serving(s), Served(s)
    PROVE  /\ revents[0] = {} /\ revents'[0] = {}
           /\ revents' \in [Entries -> SUBSET Events]
           /\ revents'[s] = {}
           /\ \A t \in Slots : t # s => revents'[t] = revents[t]
           /\ fds[s] \in Numbers
           /\ revents[s] # {}
<1>1. 0 \notin Pending
  BY Numbering DEF Serving, Slots
<1> QED
  BY <1>1, Numbering
     DEF Serving, Served, Pending, IInv, Table, EventsSound

(* An event other than POLLNVAL is served on an open number that no other  *)
(* entry with a live event holds: it can be closed, with or without        *)
(* clearing the entry.                                                     *)
LEMMA CloseIInv ==
    ASSUME IInv, NEW s \in Slots, Serving(s), Served(s), ~Stale(s), Close(s),
           \/ UNCHANGED <<fds, nfds>>
           \/ Forget(s)
    PROVE  IInv'
<1> DEFINE n == fds[s]
<1>1. /\ revents'[0] = {} /\ revents' \in [Entries -> SUBSET Events]
      /\ revents'[s] = {} /\ n \in Numbers /\ revents[s] # {}
      /\ \A t \in Slots : t # s => revents'[t] = revents[t]
  BY ServingSlot
<1>2. /\ open' \in [Numbers -> Clients \cup {Nobody}]
      /\ open'[n] = Nobody
      /\ \A m \in Numbers : m # n => open'[m] = open[m]
  BY <1>1 DEF Close, IInv, Table
<1>3. /\ fds' \in [Slots -> Numbers \cup {Unused}]
      /\ \A t \in Slots : t # s => fds'[t] = fds[t]
      /\ fds'[s] \in {n, Unused}
  BY <1>1 DEF Forget, IInv, Table
<1>4. NfdsExact'
  BY <1>1, UsedSame, UsedForget, Numbering DEF IInv
<1>5. \A t \in Slots : t # s /\ fds[t] = n => Stale(t)
  BY <1>1, Numbering DEF IInv, SharedStale
<1>6. EventsSound'
  BY <1>1, <1>2, <1>3, <1>5 DEF IInv, EventsSound, Stale, Table
<1>7. SharedStale'
  BY <1>1, <1>3, <1>5 DEF IInv, SharedStale, Stale
<1>8. Reused'
  <2> SUFFICES ASSUME NEW t \in Slots, Stale(t)', open'[fds'[t]] # Nobody
               PROVE  \E u \in Slots : u # t /\ fds'[u] = fds'[t] /\ revents'[u] = {}
    BY DEF Reused
  <2>1. t # s /\ Stale(t) /\ fds'[t] = fds[t]
    BY <1>1, <1>3 DEF Stale
  <2>2. fds[t] \in Numbers /\ fds[t] # n /\ open[fds[t]] # Nobody
    BY <1>2, <2>1 DEF IInv, Table, EventsSound, Stale
  <2>3. PICK u \in Slots : u # t /\ fds[u] = fds[t] /\ revents[u] = {}
    BY <2>1, <2>2 DEF IInv, Reused
  <2> QED
    BY <1>1, <1>3, <2>1, <2>2, <2>3
<1>9. NoLeak'
  BY <1>1, <1>2, <1>3 DEF IInv, NoLeak, Table
<1>10. ClosedSeen'
  BY <1>1 DEF ClosedSeen
<1> QED
  BY <1>1, <1>2, <1>3, <1>4, <1>6, <1>7, <1>8, <1>9, <1>10 DEF IInv, Table

(* A stale entry is cleared and its number is not touched.                 *)
LEMMA StaleIInv ==
    ASSUME IInv, NEW s \in Slots, Serving(s), Served(s), Stale(s), Forget(s),
           UNCHANGED open
    PROVE  IInv'
<1>1. /\ revents'[0] = {} /\ revents' \in [Entries -> SUBSET Events]
      /\ revents'[s] = {} /\ fds[s] \in Numbers /\ revents[s] # {}
      /\ \A t \in Slots : t # s => revents'[t] = revents[t]
  BY ServingSlot
<1>2. /\ fds' \in [Slots -> Numbers \cup {Unused}]
      /\ \A t \in Slots : t # s => fds'[t] = fds[t]
      /\ fds'[s] = Unused
  BY DEF Forget, IInv, Table
<1>3. NfdsExact'
  BY <1>1, UsedForget, Numbering DEF IInv
<1>4. EventsSound' /\ SharedStale' /\ ClosedSeen'
  BY <1>1, <1>2 DEF IInv, EventsSound, SharedStale, ClosedSeen, Stale
<1>5. Reused'
  <2> SUFFICES ASSUME NEW t \in Slots, Stale(t)', open[fds'[t]] # Nobody
               PROVE  \E u \in Slots : u # t /\ fds'[u] = fds'[t] /\ revents'[u] = {}
    BY DEF Reused
  <2>1. t # s /\ Stale(t) /\ fds'[t] = fds[t]
    BY <1>1, <1>2 DEF Stale
  <2>2. PICK u \in Slots : u # t /\ fds[u] = fds[t] /\ revents[u] = {}
    BY <2>1 DEF IInv, Reused
  <2> QED
    BY <1>1, <1>2, <2>1, <2>2
<1>6. NoLeak'
  <2> SUFFICES ASSUME NEW m \in Numbers, open[m] # Nobody
               PROVE  \E t \in Slots : fds'[t] = m
    BY DEF NoLeak
  <2>1. PICK t \in Slots : fds[t] = m
    BY DEF IInv, NoLeak
  <2>2. CASE t # s
    BY <1>2, <2>1, <2>2
  <2>3. CASE t = s
    <3>1. PICK u \in Slots : u # s /\ fds[u] = m
      BY <2>1, <2>3 DEF IInv, Reused
    <3> QED
      BY <1>2, <3>1
  <2> QED
    BY <2>2, <2>3
<1> QED
  BY <1>1, <1>2, <1>3, <1>4, <1>5, <1>6 DEF IInv, Table

(* A command that leaves the client connected.                             *)
LEMMA AnswerIInv ==
    ASSUME IInv, NEW s \in Slots, Serving(s), Served(s), ~Stale(s),
           UNCHANGED <<fds, nfds, open>>
    PROVE  IInv'
<1>1. /\ revents'[0] = {} /\ revents' \in [Entries -> SUBSET Events]
      /\ revents'[s] = {} /\ revents[s] # {}
      /\ \A t \in Slots : t # s => revents'[t] = revents[t]
  BY ServingSlot
<1>2. NfdsExact'
  BY UsedSame DEF IInv
<1>3. EventsSound' /\ ClosedSeen' /\ NoLeak'
  BY <1>1 DEF IInv, EventsSound, ClosedSeen, NoLeak, Stale
<1>4. SharedStale'
  BY <1>1 DEF IInv, SharedStale, Stale
<1>5. Reused'
  BY <1>1 DEF IInv, Reused, Stale
<1> QED
  BY <1>1, <1>2, <1>3, <1>4, <1>5 DEF IInv, Table

LEMMA NextIInv == IInv /\ Queue /\ [Next]_vars => IInv'
<1> SUFFICES ASSUME IInv, Queue, [Next]_vars PROVE IInv'
  OBVIOUS
<1>1. CASE Poll
  BY <1>1, PollIInv
<1>2. CASE Delay \/ AcceptFails
  BY <1>2, ListenIInv DEF Delay, AcceptFails
<1>3. CASE Accept
  BY <1>3, AcceptIInv
<1>4. ASSUME NEW s \in Slots, Disconnect(s) PROVE IInv'
  BY <1>4, CloseIInv DEF Disconnect, Stale
<1>5. ASSUME NEW s \in Slots, Command(s) PROVE IInv'
  <2>1. Serving(s) /\ Served(s) /\ ~Stale(s)
    BY <1>5 DEF Command, Stale
  <2>2. CASE Drop(s)
    BY <2>1, <2>2, CloseIInv DEF Drop
  <2>3. CASE UNCHANGED <<fds, nfds, open>>
    BY <2>1, <2>3, AnswerIInv
  <2> QED
    BY <1>5, <2>2, <2>3 DEF Command
<1>6. ASSUME NEW s \in Slots, Shutdown(s) PROVE IInv'
  <2>1. /\ fds' = [t \in Slots |-> Unused] /\ nfds' = 1
        /\ revents' = [e \in Entries |-> {}]
        /\ open' = [n \in Numbers |-> Nobody]
    BY <1>6 DEF Shutdown
  <2>2. Used' = {}
    BY <2>1 DEF Used
  <2>3. NfdsExact'
    BY <2>1, <2>2, FS_EmptySet DEF NfdsExact
  <2>4. Table'
    BY <2>1 DEF Table
  <2>5. revents'[0] = {} /\ \A t \in Slots : revents'[t] = {} /\ fds'[t] = Unused
    BY <2>1, Numbering
  <2> QED
    BY <2>1, <2>3, <2>4, <2>5
       DEF IInv, EventsSound, SharedStale, ClosedSeen, Reused, Stale, NoLeak
<1>7. ASSUME NEW s \in Slots, Hang(s) PROVE IInv'
  <2>1. Serving(s) /\ Served(s) /\ Forget(s)
    BY <1>7 DEF Hang
  <2>2. CASE Stale(s)
    BY <1>7, <2>1, <2>2, StaleIInv DEF Hang, HangEvents, Stale
  <2>3. CASE ~Stale(s)
    <3>1. revents[s] \cap HangEvents # {}
      BY <1>7, <2>3, ServingSlot, Numbering
         DEF Hang, HangEvents, IInv, Table, EventsSound, Events
    <3> QED
      BY <1>7, <2>1, <2>3, <3>1, CloseIInv DEF Hang
  <2> QED
    BY <2>2, <2>3
<1>8. ASSUME NEW c \in Clients,
             Connect(c) \/ Leave(c) \/ \E m \in Commands : Send(c, m)
      PROVE  IInv'
  BY <1>8, SameIInv DEF Connect, Leave, Send
<1>9. CASE UNCHANGED vars
  BY <1>9, SameIInv DEF vars
<1> QED
  BY <1>1, <1>2, <1>3, <1>4, <1>5, <1>6, <1>7, <1>8, <1>9 DEF Next, Daemon

(* For every table size: nfds is exact, the search for a free entry never  *)
(* leaves the table, descriptors are closed by their owner only, and no    *)
(* open connection is out of the table.                                    *)
THEOREM TableSound == Spec => []Bookkeeping
<1>1. IInv => NfdsExact /\ SlotAvailable /\ NoLeak
  BY Available DEF IInv
<1>2. IInv => OwnDescriptor
  BY DEF IInv, EventsSound, SharedStale, Stale, OwnDescriptor
<1>3. Init => Queue
  BY DEF Init, Queue
<1>4. IInv => Bookkeeping
  BY <1>1, <1>2 DEF Bookkeeping
<1> QED
  BY <1>3, <1>4, InitIInv, NextIInv, NextQueue, PTL DEF Spec

-----------------------------------------------------------------------------
(* The types of what the clients own.                                      *)
Ends == inbox \in [Clients -> Commands \cup {"none"}] /\ live \subseteq Clients

LEMMA NextEnds == Ends /\ [Next]_vars => Ends'
<1> SUFFICES ASSUME Ends, [Next]_vars PROVE Ends'
  OBVIOUS
<1> USE DEF Ends
<1>1. CASE Poll \/ Delay \/ Accept \/ AcceptFails
  BY <1>1 DEF Poll, Delay, Accept, AcceptFails
<1>2. ASSUME NEW s \in Slots, Disconnect(s) \/ Command(s) \/ Shutdown(s) \/ Hang(s)
      PROVE  Ends'
  BY <1>2 DEF Disconnect, Command, Shutdown, Hang
<1>3. ASSUME NEW c \in Clients,
             Connect(c) \/ Leave(c) \/ \E m \in Commands : Send(c, m)
      PROVE  Ends'
  BY <1>3 DEF Connect, Leave, Send
<1>4. CASE UNCHANGED vars
  BY <1>4 DEF vars
<1> QED
  BY <1>1, <1>2, <1>3, <1>4 DEF Next, Daemon

(* Every number in the table is one the kernel may hand out, and every     *)
(* open number belongs to a client.                                        *)
THEOREM TableTypes == Spec => []TypeOK
<1>1. Init => Queue /\ Ends
  BY DEF Init, Queue, Ends
<1>2. IInv /\ Queue /\ Ends => TypeOK
  BY UsedFinite DEF IInv, Table, NfdsExact, Queue, Ends, TypeOK
<1> QED
  BY <1>1, <1>2, InitIInv, NextIInv, NextQueue, NextEnds, PTL DEF Spec

(* There is a free entry whenever accept() may be called.                  *)
THEOREM FreeEntry == Spec => []SlotAvailable
<1>1. Bookkeeping => SlotAvailable
  BY DEF Bookkeeping
<1> QED BY <1>1, TableSound, PTL

(* Every open connection is in the table.                                  *)
THEOREM NothingLeaks == Spec => []NoLeak
<1>1. Bookkeeping => NoLeak
  BY DEF Bookkeeping
<1> QED BY <1>1, TableSound, PTL

-----------------------------------------------------------------------------
(* A client is in one place: behind one number, or once in the backlog.    *)
Once ==
    /\ \A n, m \in Numbers : open[n] = open[m] /\ open[n] # Nobody => n = m
    /\ \A k \in 1..Len(backlog), n \in Numbers : open[n] # backlog[k]
    /\ \A k, l \in 1..Len(backlog) : backlog[k] = backlog[l] => k = l

(* What poll() said of an entry is still so when the entry is served,      *)
(* though other entries were served, and clients went on, in between.      *)
EventsTrue ==
    \A s \in Slots :
      /\ "HUP" \in revents[s] => Client(s) \notin live
      /\ "IN" \in revents[s] /\ "HUP" \notin revents[s] => inbox[Client(s)] # "none"

LEMMA OnceClose ==
    ASSUME Table, Once, NEW s \in Slots, fds[s] \in Numbers, Close(s), UNCHANGED backlog,
           \A k \in 1..Len(backlog) : backlog[k] # Nobody
    PROVE  Once'
<1>1. \A n \in Numbers : open'[n] = Nobody \/ open'[n] = open[n]
  BY DEF Close, Table
<1> QED
  BY <1>1 DEF Once

LEMMA NextOnce == IInv /\ Queue /\ Once /\ [Next]_vars => Once'
<1> SUFFICES ASSUME IInv, Queue, Once, [Next]_vars PROVE Once'
  OBVIOUS
<1>0. Table /\ Nobody \notin Clients /\ \A k \in 1..Len(backlog) : backlog[k] \in Clients
  BY TableAssumption DEF IInv, Queue
<1>1. CASE Accept
  <2>1. PICK n \in Numbers :
          open[n] = Nobody /\ open' = [open EXCEPT ![n] = Head(backlog)]
    BY <1>1 DEF Accept
  <2>2. backlog # << >> /\ backlog' = Tail(backlog)
    BY <1>1 DEF Accept
  <2>3. /\ Head(backlog) = backlog[1] /\ 1 \in 1..Len(backlog)
        /\ Len(backlog') = Len(backlog) - 1
        /\ \A k \in 1..Len(backlog') : k + 1 \in 1..Len(backlog) /\ backlog'[k] = backlog[k + 1]
    BY <2>2 DEF Queue
  <2>4. /\ \A m \in Numbers : m # n => open'[m] = open[m] /\ open[m] # backlog[1]
        /\ open'[n] = backlog[1]
    BY <1>0, <2>1, <2>3 DEF Table, Once
  <2>5. \A k, l \in Numbers : open'[k] = open'[l] /\ open'[k] # Nobody => k = l
    BY <2>4 DEF Once
  <2>6. \A k \in 1..Len(backlog') :
          backlog'[k] # backlog[1] /\ \A m \in Numbers : open[m] # backlog'[k]
    BY <2>3 DEF Once
  <2>7. \A k \in 1..Len(backlog'), m \in Numbers : open'[m] # backlog'[k]
    BY <2>4, <2>6
  <2>8. \A k, l \in 1..Len(backlog') : backlog'[k] = backlog'[l] => k = l
    BY <2>3 DEF Once
  <2> QED
    BY <2>5, <2>7, <2>8 DEF Once
<1>2. CASE Poll \/ Delay \/ AcceptFails \/ UNCHANGED vars
  BY <1>2 DEF Poll, Delay, AcceptFails, vars, Once, Accepted
<1>3. ASSUME NEW s \in Slots, Disconnect(s) \/ Command(s) \/ Hang(s) PROVE Once'
  <2>1. fds[s] \in Numbers
    BY <1>3, ServingSlot DEF Disconnect, Command, Hang
  <2>2. backlog' = backlog /\ (Close(s) \/ open' = open)
    BY <1>3 DEF Disconnect, Command, Hang, Drop
  <2>3. CASE Close(s)
    BY <1>0, <2>1, <2>2, <2>3, TableAssumption, OnceClose
  <2>4. CASE open' = open
    BY <2>2, <2>4 DEF Once, Accepted
  <2> QED
    BY <2>2, <2>3, <2>4
<1>4. ASSUME NEW s \in Slots, Shutdown(s) PROVE Once'
  <2>1. backlog' = << >> /\ \A n \in Numbers : open'[n] = Nobody
    BY <1>4 DEF Shutdown
  <2> QED
    BY <2>1 DEF Once
<1>5. ASSUME NEW c \in Clients, Connect(c) PROVE Once'
  <2>1. /\ backlog' = Append(backlog, c) /\ open' = open /\ ~Accepted(c)
        /\ \A k \in 1..Len(backlog) : backlog[k] # c
    BY <1>5 DEF Connect, Waiting, Queue
  <2>2. /\ Len(backlog') = Len(backlog) + 1 /\ backlog'[Len(backlog) + 1] = c
        /\ \A k \in 1..Len(backlog) : backlog'[k] = backlog[k]
        /\ \A k \in 1..Len(backlog') : k \in 1..Len(backlog) \/ k = Len(backlog) + 1
    BY <2>1 DEF Queue
  <2>3. \A k \in 1..Len(backlog'), n \in Numbers : open'[n] # backlog'[k]
    BY <2>1, <2>2 DEF Once, Accepted
  <2>4. \A k, l \in 1..Len(backlog') : backlog'[k] = backlog'[l] => k = l
    BY <2>1, <2>2 DEF Once
  <2> QED
    BY <2>1, <2>3, <2>4 DEF Once
<1>6. ASSUME NEW c \in Clients, Leave(c) \/ \E m \in Commands : Send(c, m) PROVE Once'
  BY <1>6 DEF Leave, Send, Once, Accepted
<1> QED
  BY <1>1, <1>2, <1>3, <1>4, <1>5, <1>6 DEF Next, Daemon

(* Another entry with news is another client's.                            *)
LEMMA OtherEntry ==
    ASSUME IInv, Once, NEW s \in Slots, NEW t \in Slots, s # t,
           revents[s] \cap {"IN", "HUP"} # {}, revents[t] \cap {"IN", "HUP"} # {}
    PROVE  fds[t] # fds[s] /\ Client(t) # Client(s) /\ fds[t] \in Numbers
<1>1. ~Stale(s) /\ ~Stale(t) /\ revents[s] # {} /\ revents[t] # {}
  BY DEF Stale
<1>2. /\ fds[s] \in Numbers /\ fds[t] \in Numbers
      /\ open[fds[s]] # Nobody /\ fds[s] # fds[t]
  BY <1>1 DEF IInv, Table, EventsSound, SharedStale
<1> QED
  BY <1>2 DEF Once, Client

LEMMA NextEvents ==
    IInv /\ Once /\ EventsTrue /\ Ends /\ [Next]_vars => EventsTrue'
<1> SUFFICES ASSUME IInv, Once, EventsTrue, Ends, [Next]_vars,
                    NEW t \in Slots, revents'[t] \cap {"IN", "HUP"} # {}
             PROVE  /\ "HUP" \in revents'[t] => Client(t)' \notin live'
                    /\ "IN" \in revents'[t] /\ "HUP" \notin revents'[t]
                          => inbox'[Client(t)'] # "none"
  BY DEF EventsTrue
<1>0. Table /\ t \in Entries
  BY Numbering DEF IInv
<1>t. ASSUME revents'[t] = revents[t]
      PROVE  fds[t] \in Numbers /\ open[fds[t]] # Nobody
  BY <1>t DEF IInv, Table, EventsSound, Stale
<1>1. CASE Poll
  <2>1. revents'[t] \in SlotEvents(t) /\ UNCHANGED <<fds, open, inbox, live>>
    BY <1>0, <1>1, Numbering DEF Poll, EntryEvents
  <2>2. /\ "HUP" \in revents'[t] => open[fds[t]] \notin live
        /\ "IN" \in revents'[t] /\ "HUP" \notin revents'[t] => inbox[open[fds[t]]] # "none"
    BY <2>1 DEF SlotEvents
  <2> QED
    BY <2>1, <2>2 DEF Client
<1>2. CASE Delay \/ AcceptFails \/ UNCHANGED vars
  <2>1. revents'[t] = revents[t] /\ UNCHANGED <<fds, open, inbox, live>>
    BY <1>0, <1>2, Numbering DEF Delay, AcceptFails, vars, Served, Table
  <2> QED
    BY <2>1 DEF EventsTrue, Client
<1>3. CASE Accept
  <2>1. revents'[t] = revents[t] /\ UNCHANGED <<inbox, live>>
    BY <1>0, <1>3, Numbering DEF Accept, Served, Table
  <2>2. PICK j \in Slots, n \in Numbers :
          /\ fds[j] = Unused /\ open[n] = Nobody
          /\ fds' = [fds EXCEPT ![j] = n] /\ open' = [open EXCEPT ![n] = Head(backlog)]
    BY <1>3 DEF Accept
  <2>3. fds[t] \in Numbers /\ open[fds[t]] # Nobody
    BY <1>t, <2>1
  <2>4. Client(t)' = Client(t)
    BY <1>0, <2>2, <2>3, Numbering DEF Client, Table
  <2> QED
    BY <2>1, <2>4 DEF EventsTrue
<1>4. ASSUME NEW s \in Slots, Disconnect(s) \/ Command(s) \/ Hang(s)
      PROVE  /\ "HUP" \in revents'[t] => Client(t)' \notin live'
             /\ "IN" \in revents'[t] /\ "HUP" \notin revents'[t]
                   => inbox'[Client(t)'] # "none"
  <2>1. Serving(s) /\ Served(s) /\ live' = live
    BY <1>4 DEF Disconnect, Command, Hang
  <2>2. t # s /\ revents'[t] = revents[t] /\ fds[s] \in Numbers /\ revents[s] # {}
    BY <2>1, ServingSlot
  <2>3. fds[t] \in Numbers /\ open[fds[t]] # Nobody
    BY <1>t, <2>2
  <2>4. fds'[t] = fds[t]
    BY <1>0, <1>4, <2>2 DEF Disconnect, Command, Hang, Forget, Drop, Table
  <2>5. CASE Stale(s)
    <3>1. UNCHANGED <<open, inbox>>
      BY <1>4, <2>5 DEF Disconnect, Command, Hang, HangEvents, Stale
    <3> QED
      BY <2>1, <2>2, <2>4, <3>1 DEF EventsTrue, Client
  <2>6. CASE ~Stale(s)
    <3>1. revents[s] \cap {"IN", "HUP"} # {}
      BY <1>0, <2>2, <2>6, Numbering DEF IInv, EventsSound, Table, Events
    <3>2. fds[t] # fds[s] /\ Client(t) # Client(s)
      BY <2>2, <3>1, OtherEntry
    <3>3. open'[fds[t]] = open[fds[t]]
      BY <1>0, <1>4, <2>2, <2>3, <3>2 DEF Disconnect, Command, Hang, Close, Drop, Table
    <3>4. Client(t)' = Client(t)
      BY <2>4, <3>3 DEF Client
    <3>5. inbox' = inbox \/ inbox' = [inbox EXCEPT ![Client(s)] = "none"]
      BY <1>4 DEF Disconnect, Command, Hang
    <3>6. Client(t) \in Clients
      BY <1>0, <2>3 DEF Table, Client
    <3>7. inbox'[Client(t)] = inbox[Client(t)]
      BY <3>2, <3>5, <3>6 DEF Ends
    <3> QED
      BY <2>1, <2>2, <3>4, <3>7 DEF EventsTrue
  <2> QED
    BY <2>5, <2>6
<1>5. ASSUME NEW s \in Slots, Shutdown(s) PROVE FALSE
  BY <1>0, <1>5 DEF Shutdown
<1>6. ASSUME NEW c \in Clients,
             Connect(c) \/ Leave(c) \/ \E m \in Commands : Send(c, m)
      PROVE  /\ "HUP" \in revents'[t] => Client(t)' \notin live'
             /\ "IN" \in revents'[t] /\ "HUP" \notin revents'[t]
                   => inbox'[Client(t)'] # "none"
  <2>1. UNCHANGED <<fds, revents, open>>
    BY <1>6 DEF Connect, Leave, Send
  <2>2. fds[t] \in Numbers /\ open[fds[t]] # Nobody
    BY <1>t, <2>1
  <2>3. Client(t) \in Clients /\ Client(t)' = Client(t)
    BY <1>0, <2>1, <2>2 DEF Table, Client
  <2>4. CASE Connect(c)
    <3>1. Client(t) # c
      BY <2>2, <2>4 DEF Connect, Accepted, Client
    <3> QED
      BY <2>1, <2>3, <2>4, <3>1 DEF Connect, EventsTrue, Ends
  <2>5. CASE Leave(c)
    BY <2>1, <2>3, <2>5 DEF Leave, EventsTrue
  <2>6. ASSUME NEW m \in Commands, Send(c, m)
        PROVE  live' = live /\ (inbox[Client(t)] # "none" => inbox'[Client(t)] # "none")
    BY <2>3, <2>6 DEF Send, Ends, Commands
  <2> QED
    BY <1>6, <2>1, <2>3, <2>4, <2>5, <2>6 DEF EventsTrue
<1> QED
  BY <1>1, <1>2, <1>3, <1>4, <1>5, <1>6 DEF Next, Daemon

(* A client that is there and has not said quit keeps its connection: no   *)
(* other client's quit, departure or stale entry closes it.                *)
THEOREM KeptOpen == Spec => ClientKept
<1> DEFINE KInv == IInv /\ Queue /\ Ends /\ Once /\ EventsTrue
<1>1. Init => KInv
  <2> SUFFICES ASSUME Init PROVE KInv
    OBVIOUS
  <2>1. Queue /\ Ends /\ Once
    BY DEF Init, Queue, Ends, Once
  <2>2. EventsTrue
    BY Numbering DEF Init, EventsTrue
  <2> QED
    BY InitIInv, <2>1, <2>2
<1>2. KInv /\ [Next]_vars => KInv'
  BY NextIInv, NextQueue, NextEnds, NextOnce, NextEvents
<1>3. ASSUME KInv, [Next]_vars, NEW c \in Clients,
             Accepted(c), c \in live, inbox[c] # "quit"
      PROVE  Accepted(c)' \/ \E s \in Slots : Shutdown(s)
  <2>1. PICK n \in Numbers : open[n] = c
    BY <1>3 DEF Accepted
  <2>2. Table /\ c # Nobody
    BY <1>3, TableAssumption DEF IInv
  <2>3. ASSUME NEW s \in Slots, Disconnect(s) \/ Command(s) \/ Hang(s) PROVE open'[n] = c
    <3>1. Serving(s) /\ Served(s)
      BY <2>3 DEF Disconnect, Command, Hang
    <3>2. fds[s] \in Numbers
      BY <1>3, <3>1, ServingSlot
    <3>3. CASE fds[s] = n
      <4>1. Client(s) = c
        BY <2>1, <3>3 DEF Client
      <4>2. ~Disconnect(s)
        BY <1>3, <4>1 DEF Disconnect, EventsTrue
      <4>3. Command(s) => open' = open
        BY <1>3, <4>1 DEF Command
      <4>4. Hang(s) => open' = open
        BY <1>3, <4>1 DEF Hang, HangEvents, EventsTrue
      <4> QED
        BY <2>1, <2>3, <4>2, <4>3, <4>4
    <3>4. CASE fds[s] # n
      BY <2>1, <2>2, <2>3, <3>2, <3>4 DEF Disconnect, Command, Hang, Close, Drop, Table
    <3> QED
      BY <3>3, <3>4
  <2>4. CASE Accept
    BY <2>1, <2>2, <2>4 DEF Accept, Table, Accepted
  <2>5. CASE Poll \/ Delay \/ AcceptFails \/ UNCHANGED vars
    BY <2>1, <2>5 DEF Poll, Delay, AcceptFails, vars, Accepted
  <2>6. ASSUME NEW d \in Clients,
               Connect(d) \/ Leave(d) \/ \E m \in Commands : Send(d, m)
        PROVE  Accepted(c)'
    BY <2>1, <2>6 DEF Connect, Leave, Send, Accepted
  <2> QED
    BY <1>3, <2>3, <2>4, <2>5, <2>6 DEF Next, Daemon, Accepted
<1>4. KInv /\ [Next]_vars =>
        [\A c \in Clients : Accepted(c) /\ c \in live /\ inbox[c] # "quit"
            => Accepted(c)' \/ \E s \in Slots : Shutdown(s)]_vars
  BY <1>3
<1> QED
  BY <1>1, <1>2, <1>4, PTL DEF Spec, ClientKept
=============================================================================
