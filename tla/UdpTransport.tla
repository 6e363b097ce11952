---------------------------- MODULE UdpTransport ----------------------------
(***************************************************************************)
(* Who closes which descriptor: udp_transport.c over a table of            *)
(* descriptors whose numbers the kernel reuses, and an application that    *)
(* keeps to the contract of udp_transport.h.  It closes only descriptors   *)
(* it still holds and no active transport uses, and gives no descriptor to *)
(* two transports.  It may call any function at any time, close twice      *)
(* included.                                                               *)
(*                                                                         *)
(* A call that returns UDP_TRANSPORT_ERROR on its arguments alone changes  *)
(* nothing and is not modelled: init_udp of an active transport, a         *)
(* function of an inactive one, a descriptor out of range.  send, recv and *)
(* wait change neither the transport nor the table.                        *)
(***************************************************************************)
EXTENDS Integers, FiniteSets

CONSTANTS Transports,  \* the udp_transport_t of the process
          NumFds,      \* bound: size of the process's descriptor table
          SetSize,     \* FD_SETSIZE
          MaxSockets   \* bound: sockets opened in one behaviour

ASSUME TableAssumption ==
  NumFds \in Nat \ {0} /\ SetSize \in Nat /\ MaxSockets \in Nat
ASSUME NamesAssumption == "app" \notin Transports

Fds == 0 .. NumFds - 1
NoFd == -1

\* What a descriptor number stands for; no tells sockets with the same number apart.
Files == [no : 1 .. MaxSockets, type : {"udp", "tcp"}, bound : BOOLEAN]
Free == [no |-> 0, type |-> "none", bound |-> FALSE]

VARIABLES
  file,    \* the kernel's table
  opened,  \* sockets opened so far
  app,     \* the descriptors the application holds and will close
  ops,     \* the transports that are active
  data,    \* fd and owns_fd of each transport
  tcpFd,   \* tcp_fd of each transport
  given    \* history: the sockets each active transport was given

vars == <<file, opened, app, ops, data, tcpFd, given>>

Init ==
  /\ file = [f \in Fds |-> Free]
  /\ opened = 0
  /\ app = {}
  /\ ops = {}
  /\ data = [t \in Transports |-> [fd |-> NoFd, owns |-> FALSE]]
  /\ tcpFd = [t \in Transports |-> NoFd]
  /\ given = [t \in Transports |-> [udp |-> 0, tcp |-> 0]]

-----------------------------------------------------------------------------
Used(t) == {data[t].fd, tcpFd[t]}
InUse == UNION {Used(t) : t \in ops}

\* The number of the socket behind f.
No(f) == IF f = NoFd THEN 0 ELSE file[f].no

\* socket returns the lowest free number, if there is one.
IsLowestFree(f) == file[f] = Free /\ \A g \in 0 .. f - 1 : file[g] # Free

\* The application opens a socket, or accepts a TCP connection.
AppOpens(f, type, bound) ==
  /\ opened < MaxSockets
  /\ IsLowestFree(f)
  /\ opened' = opened + 1
  /\ file' = [file EXCEPT ![f] = [no |-> opened + 1, type |-> type, bound |-> bound]]
  /\ app' = app \cup {f}
  /\ UNCHANGED <<ops, data, tcpFd, given>>

AppCloses(f) ==
  /\ f \in app \ InUse
  /\ app' = app \ {f}
  /\ file' = [file EXCEPT ![f] = Free]
  /\ UNCHANGED <<opened, ops, data, tcpFd, given>>

-----------------------------------------------------------------------------
\* The TCP descriptors the application may name: its own, or none.
TcpFds == {NoFd} \cup {f \in app : file[f].type = "tcp" /\ f < SetSize}

Activate(t, f, owns, tcp, no) ==
  /\ ops' = ops \cup {t}
  /\ data' = [data EXCEPT ![t] = [fd |-> f, owns |-> owns]]
  /\ tcpFd' = [tcpFd EXCEPT ![t] = tcp]
  /\ given' = [given EXCEPT ![t] = [udp |-> no, tcp |-> No(tcp)]]

\* init_udp with fd = -1, all calls succeeding.
InitCreates(t, f, tcp) ==
  /\ t \notin ops
  /\ opened < MaxSockets
  /\ IsLowestFree(f)
  /\ f < SetSize
  /\ opened' = opened + 1
  /\ file' = [file EXCEPT ![f] = [no |-> opened + 1, type |-> "udp", bound |-> TRUE]]
  /\ Activate(t, f, TRUE, tcp, opened + 1)
  /\ UNCHANGED app

\* Faulty: the socket is not closed at the label fail.
InitCreationLeaks(t, f) ==
  /\ t \notin ops
  /\ opened < MaxSockets
  /\ IsLowestFree(f)
  /\ opened' = opened + 1
  /\ file' = [file EXCEPT ![f] = [no |-> opened + 1, type |-> "udp", bound |-> FALSE]]
  /\ UNCHANGED <<app, ops, data, tcpFd, given>>

\* init_udp with fd = -1: the number is too large for select, or a call
\* fails; the new socket is closed.
InitCreationFails(t, f) ==
  /\ t \notin ops
  /\ opened < MaxSockets
  /\ IsLowestFree(f)
  /\ opened' = opened + 1
  /\ UNCHANGED <<file, app, ops, data, tcpFd, given>>

\* What init_udp requires of a descriptor it is given.
Acceptable(f, already) ==
  /\ file[f].type = "udp"
  /\ file[f].bound = already

\* init_udp with the application's own descriptor.
InitAdopts(t, f, already, take, tcp) ==
  /\ t \notin ops
  /\ f \in app \ InUse
  /\ f < SetSize
  /\ Acceptable(f, already)
  /\ file' = [file EXCEPT ![f].bound = TRUE]
  /\ app' = IF take THEN app \ {f} ELSE app
  /\ Activate(t, f, take, tcp, No(f))
  /\ UNCHANGED opened

\* Faulty: at the label fail, whatever descriptor there is gets closed.
InitClosesGiven(t, f) ==
  /\ t \notin ops
  /\ f \in app \ InUse
  /\ file' = [file EXCEPT ![f] = Free]
  /\ UNCHANGED <<opened, app, ops, data, tcpFd, given>>

\* The same, refused (a TCP socket, not bound as promised) or not bindable;
\* the application keeps its descriptor, unbound still.
InitRejects(t, f) ==
  /\ t \notin ops
  /\ f \in app \ InUse
  /\ UNCHANGED vars

SetTcpFd(t, tcp) ==
  /\ t \in ops
  /\ tcpFd' = [tcpFd EXCEPT ![t] = tcp]
  /\ given' = [given EXCEPT ![t].tcp = No(tcp)]
  /\ UNCHANGED <<file, opened, app, ops, data>>

\* Faulty: ops stays set, so that a second close is not noticed.
CloseKeepingOps(t) ==
  /\ t \in ops
  /\ file' = IF data[t].owns THEN [file EXCEPT ![data[t].fd] = Free] ELSE file
  /\ tcpFd' = [tcpFd EXCEPT ![t] = NoFd]
  /\ UNCHANGED <<opened, app, ops, data, given>>

\* udp_transport_close; on an inactive transport it does nothing.
Close(t) ==
  /\ t \in ops
  /\ file' = IF data[t].owns THEN [file EXCEPT ![data[t].fd] = Free] ELSE file
  /\ data' = [data EXCEPT ![t] = [fd |-> NoFd, owns |-> FALSE]]
  /\ ops' = ops \ {t}
  /\ tcpFd' = [tcpFd EXCEPT ![t] = NoFd]
  /\ given' = [given EXCEPT ![t] = [udp |-> 0, tcp |-> 0]]
  /\ UNCHANGED <<opened, app>>

Next ==
  \/ \E f \in Fds : AppCloses(f)
  \/ \E f \in Fds, type \in {"udp", "tcp"}, bound \in BOOLEAN : AppOpens(f, type, bound)
  \/ \E t \in Transports, f \in Fds :
       \/ InitCreationFails(t, f)
       \/ InitRejects(t, f)
       \/ \E tcp \in TcpFds :
            \/ InitCreates(t, f, tcp)
            \/ \E already, take \in BOOLEAN : InitAdopts(t, f, already, take, tcp)
  \/ \E t \in Transports : Close(t)
  \/ \E t \in Transports, tcp \in TcpFds : SetTcpFd(t, tcp)

Spec == Init /\ [][Next]_vars

-----------------------------------------------------------------------------
TypeOK ==
  /\ file \in [Fds -> Files \cup {Free}]
  /\ opened \in 0 .. MaxSockets
  /\ app \subseteq Fds
  /\ ops \subseteq Transports
  /\ data \in [Transports -> [fd : Fds \cup {NoFd}, owns : BOOLEAN]]
  /\ tcpFd \in [Transports -> Fds \cup {NoFd}]
  /\ given \in [Transports -> [udp : 0 .. MaxSockets, tcp : 0 .. MaxSockets]]

Owners(f) == {t \in ops : data[t].owns /\ data[t].fd = f}

(***************************************************************************)
(* An open descriptor has exactly one party that will close it, a closed   *)
(* one none: no init, failed or not, and no close leaks a socket or leaves *)
(* two parties to close it (udp_transport.c:113-127, 191-205).             *)
(***************************************************************************)
OneCloser ==
  \A f \in Fds :
    IF file[f] = Free
    THEN f \notin app /\ Owners(f) = {}
    ELSE \/ f \in app /\ Owners(f) = {}
         \/ f \notin app /\ \E t \in Transports : Owners(f) = {t}

(***************************************************************************)
(* What an active transport reads, waits on and closes are the sockets it  *)
(* was given, never later ones that reuse their numbers, in whatever order *)
(* the transports and the application open and close                       *)
(* (udp_transport.c:121-124, 191-196, 271).                                *)
(***************************************************************************)
DescriptorsAreThoseGiven ==
  \A t \in ops :
    /\ file[data[t].fd].no = given[t].udp /\ given[t].udp # 0
    /\ No(tcpFd[t]) = given[t].tcp
    /\ tcpFd[t] # NoFd => given[t].tcp # 0

-----------------------------------------------------------------------------
(***************************************************************************)
(* Why, party by party.                                                    *)
(***************************************************************************)
AppHoldsOpen == \A f \in app : file[f] # Free

\* An active transport's descriptors are open: its own, or the application's.
TransportHoldsOpen ==
  \A t \in ops :
    /\ data[t].fd \in Fds
    /\ IF data[t].owns THEN file[data[t].fd] # Free /\ data[t].fd \notin app
                       ELSE data[t].fd \in app
    /\ tcpFd[t] \in app \cup {NoFd}

OwnersDiffer ==
  \A t, u \in ops :
    data[t].owns /\ data[u].owns /\ data[t].fd = data[u].fd => t = u

NothingLeaked ==
  \A f \in Fds : file[f] # Free =>
    f \in app \/ \E t \in ops : data[t].owns /\ data[t].fd = f

\* The inductive invariant.
IInv ==
  /\ TypeOK
  /\ AppHoldsOpen
  /\ TransportHoldsOpen
  /\ OwnersDiffer
  /\ NothingLeaked
  /\ DescriptorsAreThoseGiven

-----------------------------------------------------------------------------
\* Who holds socket n.
Holder(n) ==
  IF n > opened THEN "unopened"
  ELSE IF \A f \in Fds : file[f].no # n THEN "closed"
  ELSE LET f == CHOOSE f \in Fds : file[f].no = n
       IN  IF f \in app THEN "app"
           ELSE IF Owners(f) = {} THEN "nobody"
           ELSE CHOOSE t \in Owners(f) : TRUE

Held == INSTANCE Ownership WITH holder <- [n \in 1 .. MaxSockets |-> Holder(n)]

(***************************************************************************)
(* The transport implements the contract of udp_transport.h on sockets: a  *)
(* socket changes hands only from the application to a transport and only  *)
(* by a successful init, and its holder closes it once.                    *)
(***************************************************************************)
OwnershipSpec == Held!Spec
=============================================================================
