---------------------------- MODULE ClientTable -----------------------------
(***************************************************************************)
(* poll_wait() of dns320l-daemon: a fixed table fds[] of MAXFDS entries,   *)
(* the listening socket in entry 0 and a client in each other one, and a   *)
(* counter nfds that stands for "the table is full".  The events of all    *)
(* entries are computed by one poll() and served one after the other,      *)
(* while clients connect, send and leave.  A client that says quit, or     *)
(* that can not be answered, has its descriptor closed but keeps its entry *)
(* until the next poll() reports it invalid; meanwhile the kernel may give *)
(* the same number to a new client.                                        *)
(***************************************************************************)
EXTENDS Integers, Sequences, FiniteSets

CONSTANTS
    MAXFDS,    \* entries of fds[]
    Clients    \* client processes

Nobody == "nobody"

ASSUME TableAssumption == MAXFDS \in Nat \ {0, 1} /\ Nobody \notin Clients

VARIABLES
    fds,       \* fds[1..].fd; entry 0 always holds the listening socket
    revents,   \* fds[].revents, cleared when the loop has served an entry
    nfds,
    open,      \* the kernel's descriptor table: the client behind a number
    backlog,   \* clients that wait to be accepted
    inbox,     \* what a client has sent and the daemon has not received
    live       \* clients whose end of the connection is open

vars == <<fds, revents, nfds, open, backlog, inbox, live>>

Entries == 0..(MAXFDS - 1)
Slots == 1..(MAXFDS - 1)
Numbers == 1..(MAXFDS + 1)
Unused == -1
Events == {"IN", "HUP", "NVAL"}
Commands == {"command", "quit", "shutdown"}

Waiting == {backlog[k] : k \in DOMAIN backlog}
Used == {s \in Slots : fds[s] # Unused}

TypeOK ==
    /\ fds \in [Slots -> Numbers \cup {Unused}]
    /\ revents \in [Entries -> SUBSET Events]
    /\ nfds \in Nat
    /\ open \in [Numbers -> Clients \cup {Nobody}]
    /\ backlog \in Seq(Clients)
    /\ inbox \in [Clients -> Commands \cup {"none"}]
    /\ live \subseteq Clients

(* poll_setup()                                                            *)
Init ==
    /\ fds = [s \in Slots |-> Unused]
    /\ revents = [e \in Entries |-> {}]
    /\ nfds = 1
    /\ open = [n \in Numbers |-> Nobody]
    /\ backlog = << >>
    /\ inbox = [c \in Clients |-> "none"]
    /\ live = {}

-----------------------------------------------------------------------------
(* poll(): POLLNVAL for a number that is not open; a client that left is   *)
(* reported as POLLIN | POLLHUP or, "others", as POLLHUP alone.            *)
SlotEvents(s) ==
    IF fds[s] = Unused THEN {{}}
    ELSE IF open[fds[s]] = Nobody THEN {{"NVAL"}}
    ELSE IF inbox[open[fds[s]]] # "none"
         THEN IF open[fds[s]] \in live THEN {{"IN"}} ELSE {{"IN", "HUP"}}
    ELSE IF open[fds[s]] \in live THEN {{}} ELSE {{"IN", "HUP"}, {"HUP"}}

EntryEvents(e) ==
    IF e = 0 THEN IF backlog = << >> THEN {{}} ELSE {{"IN"}} ELSE SlotEvents(e)

Pending == {e \in Entries : revents[e] # {}}

Poll ==
    /\ Pending = {}
    /\ revents' \in [Entries -> SUBSET Events]
    /\ \A e \in Entries : revents'[e] \in EntryEvents(e)
    /\ revents' # revents
    /\ UNCHANGED <<fds, nfds, open, backlog, inbox, live>>

(* The loop over the table serves the entries in order.                    *)
Serving(e) == e \in Pending /\ \A d \in Pending : e <= d

Served(e) == revents' = [revents EXCEPT ![e] = {}]

(* "no fds space left": the connection stays in the backlog.               *)
Delay ==
    /\ Serving(0) /\ nfds = MAXFDS
    /\ Served(0)
    /\ UNCHANGED <<fds, nfds, open, backlog, inbox, live>>

(* accept() returns the lowest free number.                                *)
Accept ==
    /\ Serving(0) /\ nfds # MAXFDS /\ backlog # << >>
    /\ \E j \in Slots, n \in Numbers :
         /\ fds[j] = Unused /\ \A k \in Slots : fds[k] = Unused => j <= k
         /\ open[n] = Nobody /\ \A k \in Numbers : open[k] = Nobody => n <= k
         /\ fds' = [fds EXCEPT ![j] = n]
         /\ open' = [open EXCEPT ![n] = Head(backlog)]
    /\ backlog' = Tail(backlog)
    /\ nfds' = nfds + 1
    /\ Served(0)
    /\ UNCHANGED <<inbox, live>>

(* accept() fails: the entry it would have used holds -1 again.            *)
AcceptFails ==
    /\ Serving(0) /\ nfds # MAXFDS
    /\ Served(0)
    /\ UNCHANGED <<fds, nfds, open, backlog, inbox, live>>

(* cleanup(): shutdown() and close() of the descriptor of an entry.        *)
Close(s) == open' = [open EXCEPT ![fds[s]] = Nobody]

(* Mutant: a hang-up does not give the place back.                         *)
ForgetNoCount(s) == fds' = [fds EXCEPT ![s] = Unused] /\ nfds' = nfds

Forget(s) == fds' = [fds EXCEPT ![s] = Unused] /\ nfds' = nfds - 1

Client(s) == open[fds[s]]

(* recv() returns 0: the peer is gone and everything it sent was read.     *)
Disconnect(s) ==
    /\ Serving(s) /\ "IN" \in revents[s] /\ inbox[Client(s)] = "none"
    /\ Close(s) /\ Forget(s)
    /\ Served(s)
    /\ UNCHANGED <<backlog, inbox, live>>

(* Mutant: quit gives the place back at once.                              *)
DropCounted(s) ==
    Close(s) /\ nfds' = nfds - 1 /\ UNCHANGED fds

(* A client that quits or can not be answered: closed, the entry is kept.  *)
Drop(s) == Close(s) /\ UNCHANGED <<fds, nfds>>

(* HandleCommand() and send(), which fails when the client has left.       *)
Command(s) ==
    /\ Serving(s) /\ "IN" \in revents[s]
    /\ inbox[Client(s)] \in {"command", "quit"}
    /\ IF inbox[Client(s)] = "quit" \/ Client(s) \notin live
       THEN Drop(s) ELSE UNCHANGED <<fds, nfds, open>>
    /\ inbox' = [inbox EXCEPT ![Client(s)] = "none"]
    /\ Served(s)
    /\ UNCHANGED <<backlog, live>>

(* ShutdownDaemon: exit(), and init starts a new daemon.                   *)
Shutdown(s) ==
    /\ Serving(s) /\ "IN" \in revents[s]
    /\ inbox[Client(s)] = "shutdown"
    /\ fds' = [t \in Slots |-> Unused]
    /\ revents' = [e \in Entries |-> {}]
    /\ nfds' = 1
    /\ open' = [n \in Numbers |-> Nobody]
    /\ backlog' = << >>
    /\ inbox' = [c \in Clients |-> "none"]
    /\ UNCHANGED live

(* Mutant: POLLNVAL closes the number too.                                 *)
HangEventsAll == {"HUP", "NVAL"}

(* POLLHUP | POLLERR, the events after which the descriptor is closed.     *)
HangEvents == {"HUP"}

Hang(s) ==
    /\ Serving(s) /\ "IN" \notin revents[s]
    /\ IF revents[s] \cap HangEvents # {} THEN Close(s) ELSE UNCHANGED open
    /\ Forget(s)
    /\ Served(s)
    /\ UNCHANGED <<backlog, inbox, live>>

-----------------------------------------------------------------------------
(* The clients: telnet, nc or dns320l-daemon -x.                           *)
Accepted(c) == \E n \in Numbers : open[n] = c

Connect(c) ==
    /\ c \notin live /\ c \notin Waiting /\ ~Accepted(c)
    /\ live' = live \cup {c}
    /\ backlog' = Append(backlog, c)
    /\ inbox' = [inbox EXCEPT ![c] = "none"]
    /\ UNCHANGED <<fds, revents, nfds, open>>

Send(c, m) ==
    /\ c \in live /\ inbox[c] = "none" /\ (c \in Waiting \/ Accepted(c))
    /\ inbox' = [inbox EXCEPT ![c] = m]
    /\ UNCHANGED <<fds, revents, nfds, open, backlog, live>>

Leave(c) ==
    /\ c \in live
    /\ live' = live \ {c}
    /\ UNCHANGED <<fds, revents, nfds, open, backlog, inbox>>

Daemon ==
    \/ Poll \/ Delay \/ Accept \/ AcceptFails
    \/ \E s \in Slots : Disconnect(s) \/ Command(s) \/ Shutdown(s) \/ Hang(s)

Next ==
    \/ Daemon
    \/ \E c \in Clients : Connect(c) \/ Leave(c) \/ (\E m \in Commands : Send(c, m))

Spec == Init /\ [][Next]_vars

(* The daemon loops for ever, accept() does not fail for ever, and a       *)
(* client leaves at the end of its session.                                *)
FairSpec ==
    /\ Spec
    /\ WF_vars(Daemon) /\ SF_vars(Accept)
    /\ \A c \in Clients : WF_vars(Leave(c))

-----------------------------------------------------------------------------
(* nfds counts the entries in use, the listening socket and the entries of *)
(* closed clients included, at every point of the loop.                    *)
NfdsExact == nfds = 1 + Cardinality(Used)

(* Whenever accept() may be called the search for a free entry stops       *)
(* inside the table: fds[MAXFDS] is never written.                         *)
SlotAvailable == nfds # MAXFDS => Used # Slots

(* A descriptor is closed only while it is the client's own: an event      *)
(* other than POLLNVAL is never served on a number closed since poll(),    *)
(* and two entries share a number only if one is stale and about to go.    *)
OwnDescriptor ==
    /\ \A s \in Slots : revents[s] \cap {"IN", "HUP"} # {} => open[fds[s]] # Nobody
    /\ \A s, t \in Slots :
         s # t /\ fds[s] = fds[t] /\ fds[s] # Unused =>
           revents[s] = {"NVAL"} \/ revents[t] = {"NVAL"}

(* No connection is forgotten: every open descriptor is in the table.      *)
NoLeak == \A n \in Numbers : open[n] # Nobody => \E s \in Slots : fds[s] = n

(* nfds, the table and the open descriptors tell the same story, whatever  *)
(* order clients come, quit and vanish in.                                 *)
Bookkeeping == NfdsExact /\ SlotAvailable /\ OwnDescriptor /\ NoLeak

(* A client that is there and has not said quit keeps its connection: no   *)
(* other client's quit, departure or stale entry closes it.                *)
ClientKept ==
    [][\A c \in Clients :
         Accepted(c) /\ c \in live /\ inbox[c] # "quit"
           => Accepted(c)' \/ \E s \in Slots : Shutdown(s)]_vars

(* Clients that wait in the backlog are accepted one after the other,      *)
(* however full the table was and however the clients before them ended.   *)
BacklogServed == <>[](backlog # <<>>) => []<><<Accept>>_vars
=============================================================================
