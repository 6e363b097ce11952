------------------------- MODULE UdpTransportProofs -------------------------
(***************************************************************************)
(* Descriptors and who closes them, for every number of transports,        *)
(* descriptors and sockets.                                                *)
(***************************************************************************)
EXTENDS UdpTransport, TLAPS

USE DEF NoFd, Fds, Files, Free

\* The initial state satisfies the inductive invariant.
LEMMA InitIInv == Init => IInv
BY TableAssumption DEF Init, IInv, TypeOK, AppHoldsOpen, TransportHoldsOpen,
   OwnersDiffer, NothingLeaked, DescriptorsAreThoseGiven

\* An active transport uses the descriptors it names.
LEMMA UsedInUse ==
  ASSUME NEW t \in ops
  PROVE  data[t].fd \in InUse /\ tcpFd[t] \in InUse
BY DEF InUse, Used

\* A new descriptor has a number nobody uses.
LEMMA AppOpensIInv ==
  ASSUME IInv, NEW f \in Fds, NEW type \in {"udp", "tcp"}, NEW bound \in BOOLEAN,
         AppOpens(f, type, bound)
  PROVE  IInv'
<1> USE TableAssumption DEF AppOpens, IsLowestFree, IInv, No
<1>1. TypeOK'
  BY DEF TypeOK
<1>2. AppHoldsOpen'
  BY DEF TypeOK, AppHoldsOpen
<1>3. TransportHoldsOpen'
  BY DEF TypeOK, TransportHoldsOpen
<1>4. OwnersDiffer'
  BY DEF OwnersDiffer
<1>5. NothingLeaked'
  BY DEF TypeOK, NothingLeaked
<1>6. DescriptorsAreThoseGiven'
  BY DEF TypeOK, AppHoldsOpen, TransportHoldsOpen, DescriptorsAreThoseGiven
<1> QED
  BY <1>1, <1>2, <1>3, <1>4, <1>5, <1>6

\* Closing a descriptor nobody uses disturbs nobody.
LEMMA AppClosesIInv ==
  ASSUME IInv, NEW f \in Fds,
         AppCloses(f)
  PROVE  IInv'
<1> USE TableAssumption DEF AppCloses, IInv, No
<1>0. \A u \in ops : data[u].fd # f /\ tcpFd[u] # f
  BY UsedInUse
<1>1. TypeOK'
  BY <1>0 DEF TypeOK
<1>2. AppHoldsOpen'
  BY <1>0 DEF TypeOK, AppHoldsOpen, TransportHoldsOpen
<1>3. TransportHoldsOpen'
  BY <1>0 DEF TypeOK, AppHoldsOpen, TransportHoldsOpen, OwnersDiffer
<1>4. OwnersDiffer'
  BY <1>0 DEF TypeOK, AppHoldsOpen, TransportHoldsOpen, OwnersDiffer
<1>5. NothingLeaked'
  BY <1>0 DEF TypeOK, NothingLeaked, OwnersDiffer
<1>6. DescriptorsAreThoseGiven'
  BY <1>0 DEF TypeOK, AppHoldsOpen, TransportHoldsOpen, OwnersDiffer, DescriptorsAreThoseGiven
<1> QED
  BY <1>1, <1>2, <1>3, <1>4, <1>5, <1>6

\* A transport that opens its own socket gets a number nobody uses.
LEMMA InitCreatesIInv ==
  ASSUME IInv, NEW t \in Transports, NEW f \in Fds, NEW tcp \in TcpFds,
         InitCreates(t, f, tcp)
  PROVE  IInv'
<1> DEFINE new == [no |-> opened + 1, type |-> "udp", bound |-> TRUE]
<1>a. /\ tcp \in app \cup {NoFd}
      /\ tcp \in Fds \cup {NoFd}
      /\ tcp # f
      /\ No(tcp) \in 0 .. MaxSockets
      /\ tcp # NoFd => No(tcp) # 0
  BY TableAssumption DEF TcpFds, IInv, TypeOK, AppHoldsOpen, InitCreates, IsLowestFree, No
<1>b. /\ t \notin ops /\ f \notin app
      /\ opened \in Nat /\ opened < MaxSockets /\ opened' = opened + 1
      /\ new \in Files /\ new # Free /\ new.no = opened + 1
      /\ UNCHANGED app /\ ops' = ops \cup {t}
  <2>1. opened \in Nat /\ opened + 1 \in 1 .. MaxSockets
    BY TableAssumption DEF InitCreates, IInv, TypeOK
  <2>2. new \in Files /\ new # Free /\ new.no = opened + 1
    BY <2>1
  <2>3. f \notin app
    BY DEF InitCreates, IsLowestFree, IInv, AppHoldsOpen
  <2> QED
    BY <2>1, <2>2, <2>3 DEF InitCreates, Activate
<1>c. /\ file \in [Fds -> Files \cup {Free}]
      /\ file' = [file EXCEPT ![f] = new]
      /\ file'[f] = new
      /\ \A g \in Fds : g # f => file'[g] = file[g]
  BY DEF InitCreates, IInv, TypeOK
<1>d. /\ data'[t].fd = f /\ data'[t].owns /\ tcpFd'[t] = tcp
      /\ given'[t].udp = opened + 1 /\ given'[t].tcp = No(tcp)
      /\ \A u \in ops : /\ u \in Transports /\ data'[u] = data[u]
                        /\ tcpFd'[u] = tcpFd[u] /\ given'[u] = given[u]
  BY <1>b DEF InitCreates, Activate, IInv, TypeOK
<1>e. \A u \in ops : data[u].fd # f /\ tcpFd[u] # f /\ data[u].fd \in Fds
  <2>1. file[f] = Free
    BY DEF InitCreates, IsLowestFree
  <2>2. NoFd # f
    OBVIOUS
  <2> QED
    BY <1>b, <2>1, <2>2 DEF IInv, TransportHoldsOpen
<1> HIDE DEF new
<1>1. TypeOK'
  <2>1. file' \in [Fds -> Files \cup {Free}]
    BY <1>b, <1>c
  <2>2. data' \in [Transports -> [fd : Fds \cup {NoFd}, owns : BOOLEAN]]
    BY DEF InitCreates, Activate, IInv, TypeOK
  <2>3. tcpFd' \in [Transports -> Fds \cup {NoFd}]
    BY <1>a DEF InitCreates, Activate, IInv, TypeOK
  <2>4. given' \in [Transports -> [udp : 0 .. MaxSockets, tcp : 0 .. MaxSockets]]
    <3>1. opened + 1 \in 0 .. MaxSockets
      BY <1>b, TableAssumption
    <3> QED
      BY <1>a, <3>1 DEF InitCreates, Activate, IInv, TypeOK
  <2> QED
    BY <1>b, <2>1, <2>2, <2>3, <2>4, TableAssumption DEF IInv, TypeOK
<1>2. AppHoldsOpen'
  BY <1>b, <1>c DEF IInv, TypeOK, AppHoldsOpen
<1>3. TransportHoldsOpen'
  BY <1>a, <1>b, <1>c, <1>d, <1>e DEF IInv, TransportHoldsOpen
<1>4. OwnersDiffer'
  BY <1>b, <1>d, <1>e DEF IInv, OwnersDiffer
<1>5. NothingLeaked'
  <2> SUFFICES ASSUME NEW g \in Fds, file'[g] # Free
               PROVE  g \in app' \/ \E u \in ops' : data'[u].owns /\ data'[u].fd = g
    BY DEF NothingLeaked
  <2>1. CASE g = f
    BY <1>b, <1>d, <2>1
  <2>2. CASE g # f
    BY <1>b, <1>c, <1>d, <2>2 DEF IInv, NothingLeaked
  <2> QED
    BY <2>1, <2>2
<1>6. DescriptorsAreThoseGiven'
  <2> SUFFICES ASSUME NEW u \in ops'
               PROVE  /\ file'[data'[u].fd].no = given'[u].udp /\ given'[u].udp # 0
                      /\ No(tcpFd[u])' = given'[u].tcp
                      /\ tcpFd'[u] # NoFd => given'[u].tcp # 0
    BY DEF DescriptorsAreThoseGiven
  <2>1. CASE u = t
    BY <1>a, <1>b, <1>c, <1>d, <2>1 DEF No
  <2>2. CASE u # t
    BY <1>b, <1>c, <1>d, <1>e, <2>2 DEF IInv, TypeOK, DescriptorsAreThoseGiven, No
  <2> QED
    BY <2>1, <2>2
<1> QED
  BY <1>1, <1>2, <1>3, <1>4, <1>5, <1>6 DEF IInv

\* Adopting a descriptor moves the duty to close it, or leaves it where it is.
LEMMA InitAdoptsIInv ==
  ASSUME IInv, NEW t \in Transports, NEW f \in Fds, NEW tcp \in TcpFds,
         NEW already \in BOOLEAN, NEW take \in BOOLEAN,
         InitAdopts(t, f, already, take, tcp)
  PROVE  IInv'
<1>a. /\ tcp \in app \cup {NoFd}
      /\ tcp \in Fds \cup {NoFd}
      /\ tcp # f
      /\ No(tcp) \in 0 .. MaxSockets
      /\ tcp # NoFd => No(tcp) # 0
  BY TableAssumption DEF TcpFds, IInv, TypeOK, AppHoldsOpen, InitAdopts, Acceptable, No
<1>b. /\ t \notin ops /\ f \in app
      /\ file[f] \in Files /\ No(f) = file[f].no /\ No(f) \in 1 .. MaxSockets
      /\ UNCHANGED opened /\ ops' = ops \cup {t}
      /\ app' \subseteq app /\ app \subseteq app' \cup {f} /\ (f \in app' <=> ~take)
  <2>1. /\ t \notin ops /\ f \in app /\ UNCHANGED opened /\ ops' = ops \cup {t}
        /\ app' = IF take THEN app \ {f} ELSE app
    BY DEF InitAdopts, Activate
  <2>2. file[f] \in Files
    BY <2>1 DEF IInv, TypeOK, AppHoldsOpen
  <2>3. No(f) = file[f].no /\ No(f) \in 1 .. MaxSockets
    BY <2>2 DEF No
  <2> QED
    BY <2>1, <2>2, <2>3
<1>c. /\ file' \in [Fds -> Files \cup {Free}]
      /\ file'[f].no = file[f].no /\ file'[f] # Free
      /\ \A g \in Fds : g # f => file'[g] = file[g]
  <2>1. [file[f] EXCEPT !.bound = TRUE] \in Files
    BY <1>b
  <2>2. file' = [file EXCEPT ![f] = [file[f] EXCEPT !.bound = TRUE]]
    BY DEF InitAdopts, IInv, TypeOK
  <2>3. /\ file' \in [Fds -> Files \cup {Free}]
        /\ file'[f] = [file[f] EXCEPT !.bound = TRUE]
        /\ \A g \in Fds : g # f => file'[g] = file[g]
    BY <2>1, <2>2 DEF IInv, TypeOK
  <2> QED
    BY <1>b, <2>1, <2>3
<1>d. /\ data'[t].fd = f /\ data'[t].owns = take /\ tcpFd'[t] = tcp
      /\ given'[t].udp = No(f) /\ given'[t].tcp = No(tcp)
      /\ \A u \in ops : /\ u \in Transports /\ data'[u] = data[u]
                        /\ tcpFd'[u] = tcpFd[u] /\ given'[u] = given[u]
  BY <1>b DEF InitAdopts, Activate, IInv, TypeOK
<1>e. \A u \in ops : data[u].fd # f /\ tcpFd[u] # f /\ data[u].fd \in Fds
  BY UsedInUse DEF InitAdopts, IInv, TransportHoldsOpen
<1>1. TypeOK'
  <2>1. data' \in [Transports -> [fd : Fds \cup {NoFd}, owns : BOOLEAN]]
    BY DEF InitAdopts, Activate, IInv, TypeOK
  <2>2. tcpFd' \in [Transports -> Fds \cup {NoFd}]
    BY <1>a DEF InitAdopts, Activate, IInv, TypeOK
  <2>3. given' \in [Transports -> [udp : 0 .. MaxSockets, tcp : 0 .. MaxSockets]]
    BY <1>a, <1>b, TableAssumption DEF InitAdopts, Activate, IInv, TypeOK
  <2> QED
    BY <1>b, <1>c, <2>1, <2>2, <2>3 DEF IInv, TypeOK
<1>2. AppHoldsOpen'
  BY <1>b, <1>c DEF IInv, TypeOK, AppHoldsOpen
<1>3. TransportHoldsOpen'
  <2> SUFFICES ASSUME NEW u \in ops'
               PROVE  /\ data'[u].fd \in Fds
                      /\ IF data'[u].owns
                         THEN file'[data'[u].fd] # Free /\ data'[u].fd \notin app'
                         ELSE data'[u].fd \in app'
                      /\ tcpFd'[u] \in app' \cup {NoFd}
    BY DEF TransportHoldsOpen
  <2>1. CASE u = t
    BY <1>a, <1>b, <1>c, <1>d, <2>1
  <2>2. CASE u # t
    <3>1. u \in ops /\ data'[u] = data[u] /\ tcpFd'[u] = tcpFd[u]
      BY <1>b, <1>d, <2>2
    <3>2. file'[data[u].fd] = file[data[u].fd] /\ data[u].fd # f /\ tcpFd[u] # f
      BY <1>c, <1>e, <3>1
    <3>3. \A g \in Fds : g # f => (g \in app' <=> g \in app)
      BY <1>b
    <3>4. tcpFd[u] \in app' \cup {NoFd}
      BY <1>b, <3>1, <3>2 DEF IInv, TransportHoldsOpen
    <3>5. data[u].fd \in Fds
      BY <1>e, <3>1
    <3> QED
      BY <3>1, <3>2, <3>3, <3>4, <3>5 DEF IInv, TransportHoldsOpen
  <2> QED
    BY <2>1, <2>2
<1>4. OwnersDiffer'
  BY <1>b, <1>d, <1>e DEF IInv, OwnersDiffer
<1>5. NothingLeaked'
  <2> SUFFICES ASSUME NEW g \in Fds, file'[g] # Free
               PROVE  g \in app' \/ \E u \in ops' : data'[u].owns /\ data'[u].fd = g
    BY DEF NothingLeaked
  <2>1. CASE g = f
    BY <1>b, <1>d, <2>1
  <2>2. CASE g # f
    BY <1>b, <1>c, <1>d, <2>2 DEF IInv, NothingLeaked
  <2> QED
    BY <2>1, <2>2
<1>6. DescriptorsAreThoseGiven'
  <2> SUFFICES ASSUME NEW u \in ops'
               PROVE  /\ file'[data'[u].fd].no = given'[u].udp /\ given'[u].udp # 0
                      /\ No(tcpFd[u])' = given'[u].tcp
                      /\ tcpFd'[u] # NoFd => given'[u].tcp # 0
    BY DEF DescriptorsAreThoseGiven
  <2>1. CASE u = t
    BY <1>a, <1>b, <1>c, <1>d, <2>1 DEF No
  <2>2. CASE u # t
    <3>1. u \in ops /\ data'[u] = data[u] /\ tcpFd'[u] = tcpFd[u] /\ given'[u] = given[u]
      BY <1>b, <1>d, <2>2
    <3>2. file'[data[u].fd] = file[data[u].fd]
      BY <1>c, <1>e, <3>1
    <3>3. tcpFd[u] # NoFd => file'[tcpFd[u]] = file[tcpFd[u]]
      BY <1>c, <1>e, <3>1 DEF IInv, TypeOK
    <3> QED
      BY <3>1, <3>2, <3>3 DEF IInv, DescriptorsAreThoseGiven, No
  <2> QED
    BY <2>1, <2>2
<1> QED
  BY <1>1, <1>2, <1>3, <1>4, <1>5, <1>6 DEF IInv

\* A transport may only be told to watch the application's own descriptors.
LEMMA SetTcpFdIInv ==
  ASSUME IInv, NEW t \in Transports, NEW tcp \in TcpFds,
         SetTcpFd(t, tcp)
  PROVE  IInv'
<1> USE TableAssumption DEF SetTcpFd
<1>a. /\ tcp \in app \cup {NoFd}
      /\ tcp \in Fds \cup {NoFd}
      /\ No(tcp) \in 0 .. MaxSockets
      /\ tcp # NoFd => No(tcp) # 0
  BY DEF TcpFds, IInv, TypeOK, AppHoldsOpen, No
<1>b. /\ tcpFd'[t] = tcp /\ given'[t].tcp = No(tcp) /\ given'[t].udp = given[t].udp
      /\ \A u \in ops : u # t => tcpFd'[u] = tcpFd[u] /\ given'[u] = given[u]
  BY DEF IInv, TypeOK
<1>1. TypeOK'
  <2>1. given' \in [Transports -> [udp : 0 .. MaxSockets, tcp : 0 .. MaxSockets]]
    <3>1. [given[t] EXCEPT !.tcp = No(tcp)] \in [udp : 0 .. MaxSockets, tcp : 0 .. MaxSockets]
      BY <1>a DEF IInv, TypeOK
    <3>2. given' = [given EXCEPT ![t] = [given[t] EXCEPT !.tcp = No(tcp)]]
      BY DEF IInv, TypeOK
    <3> QED
      BY <3>1, <3>2 DEF IInv, TypeOK
  <2> QED
    BY <1>a, <2>1 DEF IInv, TypeOK
<1>2. AppHoldsOpen'
  BY DEF IInv, TypeOK, AppHoldsOpen
<1>3. TransportHoldsOpen'
  BY <1>a, <1>b DEF IInv, TransportHoldsOpen
<1>4. OwnersDiffer'
  BY DEF IInv, OwnersDiffer
<1>5. NothingLeaked'
  BY DEF IInv, NothingLeaked
<1>6. DescriptorsAreThoseGiven'
  <2> SUFFICES ASSUME NEW u \in ops
               PROVE  /\ file[data[u].fd].no = given'[u].udp /\ given'[u].udp # 0
                      /\ No(tcpFd'[u]) = given'[u].tcp
                      /\ tcpFd'[u] # NoFd => given'[u].tcp # 0
    BY DEF DescriptorsAreThoseGiven, No
  <2>1. CASE u = t
    BY <1>a, <1>b, <2>1 DEF IInv, DescriptorsAreThoseGiven
  <2>2. CASE u # t
    BY <1>b, <2>2 DEF IInv, DescriptorsAreThoseGiven
  <2> QED
    BY <2>1, <2>2
<1> QED
  BY <1>1, <1>2, <1>3, <1>4, <1>5, <1>6 DEF IInv

\* Closing an owned descriptor disturbs no other transport: the others use their
\* own or the application's.
LEMMA CloseIInv ==
  ASSUME IInv, NEW t \in Transports,
         Close(t)
  PROVE  IInv'
<1> USE TableAssumption DEF Close, IInv, No
<1>1. TypeOK'
  <2>1. file' \in [Fds -> Files \cup {Free}]
    BY DEF TypeOK, TransportHoldsOpen
  <2>2. /\ data' \in [Transports -> [fd : Fds \cup {NoFd}, owns : BOOLEAN]]
        /\ tcpFd' \in [Transports -> Fds \cup {NoFd}]
    BY DEF TypeOK
  <2>3. given' \in [Transports -> [udp : 0 .. MaxSockets, tcp : 0 .. MaxSockets]]
    BY DEF TypeOK
  <2> QED
    BY <2>1, <2>2, <2>3 DEF TypeOK
<1>2. AppHoldsOpen'
  BY DEF TypeOK, AppHoldsOpen, TransportHoldsOpen
<1>3. TransportHoldsOpen'
  BY DEF TypeOK, AppHoldsOpen, TransportHoldsOpen, OwnersDiffer
<1>4. OwnersDiffer'
  BY DEF TypeOK, AppHoldsOpen, TransportHoldsOpen, OwnersDiffer
<1>5. NothingLeaked'
  BY DEF TypeOK, NothingLeaked, OwnersDiffer
<1>6. DescriptorsAreThoseGiven'
  BY DEF TypeOK, AppHoldsOpen, TransportHoldsOpen, OwnersDiffer, DescriptorsAreThoseGiven
<1> QED
  BY <1>1, <1>2, <1>3, <1>4, <1>5, <1>6

\* Every step keeps the invariant.
LEMMA NextIInv == IInv /\ [Next]_vars => IInv'
<1> SUFFICES ASSUME IInv, [Next]_vars PROVE IInv'
  OBVIOUS
<1>1. ASSUME UNCHANGED vars PROVE IInv'
  BY <1>1 DEF vars, IInv, TypeOK, AppHoldsOpen, TransportHoldsOpen, OwnersDiffer,
     NothingLeaked, DescriptorsAreThoseGiven, No
<1>2. ASSUME NEW t \in Transports, NEW f \in Fds, InitCreationFails(t, f) PROVE IInv'
  BY <1>2, TableAssumption DEF InitCreationFails, IInv, TypeOK, AppHoldsOpen,
     TransportHoldsOpen, OwnersDiffer, NothingLeaked, DescriptorsAreThoseGiven, No
<1>3. ASSUME NEW t \in Transports, NEW f \in Fds, InitRejects(t, f) PROVE IInv'
  BY <1>1, <1>3 DEF InitRejects
<1> QED
  BY <1>1, <1>2, <1>3, AppOpensIInv, AppClosesIInv, InitCreatesIInv, InitAdoptsIInv,
     SetTcpFdIInv, CloseIInv DEF Next

\* The inductive invariant holds in every reachable state.
THEOREM Invariance == Spec => []IInv
<1>1. Init => IInv
  BY InitIInv
<1>2. IInv /\ [Next]_vars => IInv'
  BY NextIInv
<1> QED
  BY <1>1, <1>2, PTL DEF Spec

\* Party by party or descriptor by descriptor, it is the same statement.
LEMMA PartsGiveOneCloser == IInv => OneCloser
<1> SUFFICES ASSUME IInv, NEW f \in Fds
             PROVE  IF file[f] = Free
                    THEN f \notin app /\ Owners(f) = {}
                    ELSE \/ f \in app /\ Owners(f) = {}
                         \/ f \notin app /\ \E t \in Transports : Owners(f) = {t}
  BY DEF OneCloser
<1> USE DEF IInv, Owners
<1>1. CASE file[f] = Free
  BY <1>1 DEF AppHoldsOpen, TransportHoldsOpen
<1>2. CASE f \in app
  BY <1>2 DEF AppHoldsOpen, TransportHoldsOpen
<1>3. CASE file[f] # Free /\ f \notin app
  <2>1. PICK t \in ops : data[t].owns /\ data[t].fd = f
    BY <1>3 DEF NothingLeaked
  <2>2. Owners(f) = {t}
    BY <2>1 DEF OwnersDiffer
  <2> QED
    BY <1>3, <2>1, <2>2 DEF TypeOK
<1> QED
  BY <1>1, <1>2, <1>3

(***************************************************************************)
(* Every open descriptor has exactly one party that will close it, and no  *)
(* party holds a closed one (udp_transport.c:113-127, 191-205).            *)
(***************************************************************************)
THEOREM ExactlyOneCloser == Spec => []OneCloser
  BY Invariance, PartsGiveOneCloser, PTL

(***************************************************************************)
(* An active transport works on the sockets it was given, however numbers  *)
(* are reused (udp_transport.c:121-124, 191-196, 271).                     *)
(***************************************************************************)
THEOREM TransportsKeepTheirSockets == Spec => []DescriptorsAreThoseGiven
<1>1. IInv => DescriptorsAreThoseGiven
  BY DEF IInv
<1> QED
  BY Invariance, <1>1, PTL
-----------------------------------------------------------------------------
(***************************************************************************)
(* The contract on sockets.                                                *)
(***************************************************************************)
Sockets == 1 .. MaxSockets

\* No two descriptors stand for the same socket, and none for one to come.
Numbered ==
  \A f \in Fds :
    /\ file[f].no <= opened
    /\ \A g \in Fds : file[f].no = file[g].no /\ file[f].no # 0 => f = g

\* The table has numbers only.
LEMMA NumbersAreNat ==
  IInv => /\ \A f \in Fds : /\ file[f].no \in 0 .. MaxSockets
                           /\ file[f].no = 0 <=> file[f] = Free
          /\ opened \in 0 .. MaxSockets
<1> SUFFICES ASSUME IInv, NEW f \in Fds
             PROVE  file[f].no \in 0 .. MaxSockets /\ (file[f].no = 0 <=> file[f] = Free)
  BY DEF IInv, TypeOK
<1>1. CASE file[f] = Free
  BY <1>1, TableAssumption
<1>2. CASE file[f] \in Files
  BY <1>2, TableAssumption
<1> QED
  BY <1>1, <1>2 DEF IInv, TypeOK

\* Nothing is open at first.
LEMMA InitNumbered == Init => Numbered
BY DEF Init, Numbered

\* A new socket has a new number.
LEMMA NextNumbered == IInv /\ Numbered /\ [Next]_vars => Numbered'
<1> SUFFICES ASSUME IInv, Numbered, [Next]_vars PROVE Numbered'
  OBVIOUS
<1>0. /\ opened \in Nat /\ \A f \in Fds : file[f].no \in Nat
      /\ DOMAIN file = Fds
  BY NumbersAreNat, TableAssumption DEF IInv, TypeOK
<1>1. ASSUME NEW f \in Fds, NEW x, x.no = opened + 1, opened' = opened + 1,
             file' = [file EXCEPT ![f] = x]
      PROVE  Numbered'
  BY <1>0, <1>1 DEF Numbered
<1>2. ASSUME NEW f \in Fds, NEW x, x.no = file[f].no \/ x.no = 0, opened' = opened,
             file' = [file EXCEPT ![f] = x]
      PROVE  Numbered'
  BY <1>0, <1>2 DEF Numbered
<1>3. ASSUME file' = file, opened' = opened \/ opened' = opened + 1 PROVE Numbered'
  BY <1>0, <1>3 DEF Numbered
<1>4. ASSUME NEW f \in Fds, NEW type \in {"udp", "tcp"}, NEW bound \in BOOLEAN,
             AppOpens(f, type, bound)
      PROVE  Numbered'
  BY <1>1, <1>4 DEF AppOpens
<1>5. ASSUME NEW f \in Fds, AppCloses(f) PROVE Numbered'
  BY <1>2, <1>5 DEF AppCloses
<1>6. ASSUME NEW t \in Transports, NEW f \in Fds, NEW tcp, InitCreates(t, f, tcp)
      PROVE  Numbered'
  BY <1>1, <1>6 DEF InitCreates
<1>7. ASSUME NEW t \in Transports, NEW f \in Fds, NEW already, NEW take, NEW tcp,
             InitAdopts(t, f, already, take, tcp)
      PROVE  Numbered'
  <2>1. file[f] \in Files
    BY <1>7 DEF InitAdopts, IInv, TypeOK, AppHoldsOpen
  <2>2. [file[f] EXCEPT !.bound = TRUE].no = file[f].no
    BY <2>1
  <2> QED
    BY <1>2, <1>7, <2>2 DEF InitAdopts
<1>8. ASSUME NEW t \in Transports, Close(t) PROVE Numbered'
  <2>1. data[t].fd \in Fds
    BY <1>8 DEF Close, IInv, TransportHoldsOpen
  <2> QED
    BY <1>2, <1>3, <1>8, <2>1 DEF Close
<1> QED
  BY <1>3, <1>4, <1>5, <1>6, <1>7, <1>8
     DEF Next, InitCreationFails, InitRejects, SetTcpFd, vars

\* Every socket has one of these holders.
LEMMA HolderIs ==
  IInv /\ Numbered => \A n \in Sockets :
    /\ n > opened => Holder(n) = "unopened"
    /\ n <= opened /\ (\A f \in Fds : file[f].no # n) => Holder(n) = "closed"
    /\ \A f \in app : file[f].no = n => Holder(n) = "app"
    /\ \A t \in ops : data[t].owns /\ file[data[t].fd].no = n => Holder(n) = t
    /\ \/ n > opened
       \/ \A f \in Fds : file[f].no # n
       \/ \E f \in app : file[f].no = n
       \/ \E t \in ops : data[t].owns /\ file[data[t].fd].no = n
<1> SUFFICES ASSUME IInv, Numbered, NEW n \in Sockets
             PROVE  /\ n > opened => Holder(n) = "unopened"
                    /\ n <= opened /\ (\A f \in Fds : file[f].no # n) => Holder(n) = "closed"
                    /\ \A f \in app : file[f].no = n => Holder(n) = "app"
                    /\ \A t \in ops : data[t].owns /\ file[data[t].fd].no = n => Holder(n) = t
                    /\ \/ n > opened
                       \/ \A f \in Fds : file[f].no # n
                       \/ \E f \in app : file[f].no = n
                       \/ \E t \in ops : data[t].owns /\ file[data[t].fd].no = n
  OBVIOUS
<1>0. /\ n \in Nat \ {0} /\ opened \in Nat /\ app \subseteq Fds
      /\ \A f \in Fds : file[f].no \in Nat /\ (file[f].no = 0 <=> file[f] = Free)
      /\ \A f, g \in Fds : file[f].no = n /\ file[g].no = n => f = g
      /\ \A f \in Fds : file[f].no = n => n <= opened
  BY NumbersAreNat, TableAssumption DEF IInv, TypeOK, Numbered, Sockets
<1>1. ASSUME NEW f \in Fds, file[f].no = n
      PROVE  /\ ~(n > opened)
             /\ (CHOOSE g \in Fds : file[g].no = n) = f
  BY <1>0, <1>1
<1>2. ASSUME NEW f \in app, file[f].no = n PROVE Holder(n) = "app"
  BY <1>0, <1>1, <1>2 DEF Holder
<1>3. ASSUME NEW t \in ops, data[t].owns, file[data[t].fd].no = n PROVE Holder(n) = t
  <2>1. data[t].fd \in Fds /\ data[t].fd \notin app
    BY <1>3 DEF IInv, TransportHoldsOpen
  <2>2. Owners(data[t].fd) = {t}
    BY <1>3 DEF Owners, IInv, OwnersDiffer
  <2>3. (CHOOSE u \in Owners(data[t].fd) : TRUE) = t
    BY <2>2
  <2> QED
    BY <1>0, <1>1, <1>3, <2>1, <2>2, <2>3 DEF Holder
<1>4. n > opened => Holder(n) = "unopened"
  BY DEF Holder
<1>5. n <= opened /\ (\A f \in Fds : file[f].no # n) => Holder(n) = "closed"
  BY <1>0 DEF Holder
<1>6. \A f \in Fds : file[f].no = n =>
        f \in app \/ \E t \in ops : data[t].owns /\ data[t].fd = f
  BY <1>0 DEF IInv, NothingLeaked
<1> QED
  BY <1>0, <1>2, <1>3, <1>4, <1>5, <1>6
\* The same of the next state.
LEMMA HolderIsNext ==
  IInv' /\ Numbered' => \A n \in Sockets :
    /\ n > opened' => Holder(n)' = "unopened"
    /\ n <= opened' /\ (\A f \in Fds : file'[f].no # n) => Holder(n)' = "closed"
    /\ \A f \in app' : file'[f].no = n => Holder(n)' = "app"
    /\ \A t \in ops' : data'[t].owns /\ file'[data'[t].fd].no = n => Holder(n)' = t
    /\ \/ n > opened'
       \/ \A f \in Fds : file'[f].no # n
       \/ \E f \in app' : file'[f].no = n
       \/ \E t \in ops' : data'[t].owns /\ file'[data'[t].fd].no = n
<1>1. (IInv /\ Numbered => \A n \in Sockets :
    /\ n > opened => Holder(n) = "unopened"
    /\ n <= opened /\ (\A f \in Fds : file[f].no # n) => Holder(n) = "closed"
    /\ \A f \in app : file[f].no = n => Holder(n) = "app"
    /\ \A t \in ops : data[t].owns /\ file[data[t].fd].no = n => Holder(n) = t
    /\ \/ n > opened
       \/ \A f \in Fds : file[f].no # n
       \/ \E f \in app : file[f].no = n
       \/ \E t \in ops : data[t].owns /\ file[data[t].fd].no = n)'
  BY HolderIs, PTL
<1> QED
  BY <1>1

\* A step that leaves socket m where it is does not change its holder.
LEMMA HolderKept ==
  ASSUME IInv, Numbered, IInv', Numbered', NEW m \in Sockets,
         opened' \in {opened, opened + 1}, opened' # opened => m # opened + 1,
         \A f \in Fds : file'[f].no = m <=> file[f].no = m,
         \A f \in app : file[f].no = m => f \in app',
         \A t \in ops : data[t].owns /\ file[data[t].fd].no = m =>
                         t \in ops' /\ data'[t] = data[t]
  PROVE  Holder(m)' = Holder(m)
<1>0. /\ m \in Nat /\ opened \in Nat /\ (m > opened <=> m > opened')
  BY NumbersAreNat, TableAssumption DEF Sockets
<1>1. CASE m > opened
  BY <1>0, <1>1, HolderIs, HolderIsNext
<1>2. CASE ~(m > opened) /\ \A f \in Fds : file[f].no # m
  <2>1. m <= opened /\ m <= opened' /\ \A f \in Fds : file'[f].no # m
    BY <1>0, <1>2
  <2> QED
    BY <1>2, <2>1, HolderIs, HolderIsNext
<1>3. ASSUME NEW f \in app, file[f].no = m PROVE Holder(m)' = Holder(m)
  <2>1. f \in app' /\ file'[f].no = m
    BY <1>3 DEF IInv, TypeOK
  <2> QED
    BY <1>3, <2>1, HolderIs, HolderIsNext
<1>4. ASSUME NEW t \in ops, data[t].owns, file[data[t].fd].no = m
      PROVE  Holder(m)' = Holder(m)
  <2>1. t \in ops' /\ data'[t] = data[t] /\ data[t].fd \in Fds
    BY <1>4 DEF IInv, TransportHoldsOpen
  <2>2. data'[t].owns /\ file'[data'[t].fd].no = m
    BY <1>4, <2>1
  <2> QED
    BY <1>4, <2>1, <2>2, HolderIs, HolderIsNext
<1> QED
  BY <1>1, <1>2, <1>3, <1>4, HolderIs

\* What the abstract module sees.
Table == [n \in 1 .. MaxSockets |-> Holder(n)]

\* The holder of one socket changes.
LEMMA OneChange ==
  ASSUME NEW n \in Sockets, \A m \in Sockets \ {n} : Holder(m)' = Holder(m)
  PROVE  Table' = [Table EXCEPT ![n] = Holder(n)']
BY DEF Table, Sockets
\* The actions of the contract, as steps of one socket's holder.
LEMMA ContractSteps ==
  ASSUME NEW n \in Sockets, \A m \in Sockets \ {n} : Holder(m)' = Holder(m),
         \/ Holder(n) = "unopened" /\ Holder(n)' \in Transports \cup {"app", "closed"}
         \/ Holder(n) = "app" /\ Holder(n)' \in Transports
         \/ Holder(n) \in Transports \cup {"app"} /\ Holder(n)' = "closed"
  PROVE  Held!Next
<1>1. n \in 1 .. MaxSockets /\ Table[n] = Holder(n)
  BY DEF Table, Sockets
<1>2. Table' = [Table EXCEPT ![n] = Holder(n)']
  BY OneChange
<1>3. CASE Holder(n) = "unopened" /\ Holder(n)' \in Transports \cup {"app"}
  <2>1. Held!Open(n, Holder(n)')
    BY <1>1, <1>2, <1>3 DEF Held!Open, Table
  <2> QED
    BY <1>1, <1>3, <2>1 DEF Held!Next, Held!Sockets
<1>4. CASE Holder(n) = "unopened" /\ Holder(n)' = "closed"
  <2>1. Held!OpenAndClose(n)
    BY <1>1, <1>2, <1>4 DEF Held!OpenAndClose, Table
  <2> QED
    BY <1>1, <2>1 DEF Held!Next, Held!Sockets
<1>5. CASE Holder(n) = "app" /\ Holder(n)' \in Transports
  <2>1. Held!HandOver(n, Holder(n)')
    BY <1>1, <1>2, <1>5 DEF Held!HandOver, Table
  <2> QED
    BY <1>1, <1>5, <2>1 DEF Held!Next, Held!Sockets
<1>6. CASE Holder(n) \in Transports \cup {"app"} /\ Holder(n)' = "closed"
  <2>1. Held!Close(n)
    BY <1>1, <1>2, <1>6 DEF Held!Close, Table
  <2> QED
    BY <1>1, <2>1 DEF Held!Next, Held!Sockets
<1> QED
  BY <1>3, <1>4, <1>5, <1>6

\* Socket opened + 1 is opened and goes to h, or is closed at once.
LEMMA OpeningRefines ==
  ASSUME IInv, Numbered, IInv', Numbered', opened' = opened + 1,
         app \subseteq app', \A t \in ops : t \in ops' /\ data'[t] = data[t],
         \/ file' = file
         \/ \E f \in Fds : /\ file[f] = Free
                           /\ \E x : x.no = opened + 1 /\ file' = [file EXCEPT ![f] = x]
                           /\ f \in app' \/ \E t \in ops' : data'[t].owns /\ data'[t].fd = f
  PROVE  Held!Next
<1> PICK n \in Sockets : n = opened + 1
  <2>1. opened \in 0 .. MaxSockets /\ opened + 1 \in 0 .. MaxSockets
    BY DEF IInv, TypeOK
  <2>2. opened + 1 \in Sockets
    BY <2>1, TableAssumption DEF Sockets
  <2> QED
    BY <2>2
<1>0. /\ n \in Sockets /\ n > opened /\ n <= opened' /\ opened \in Nat
      /\ \A f \in Fds : file[f].no \in Nat /\ file[f].no # n
      /\ DOMAIN file = Fds /\ Free.no = 0
  BY NumbersAreNat, TableAssumption DEF Sockets, Numbered, IInv, TypeOK
<1>1. \A m \in Sockets \ {n} : Holder(m)' = Holder(m)
  <2> SUFFICES ASSUME NEW m \in Sockets, m # n PROVE Holder(m)' = Holder(m)
    OBVIOUS
  <2>1. \A f \in Fds : file'[f].no = m <=> file[f].no = m
    <3>1. CASE file' = file
      BY <3>1
    <3>2. ASSUME NEW f \in Fds, NEW x, file[f] = Free, x.no = n,
                 file' = [file EXCEPT ![f] = x]
          PROVE  \A g \in Fds : file'[g].no = m <=> file[g].no = m
      <4>1. /\ file'[f].no = n /\ file[f].no = 0 /\ 0 # m
            /\ \A g \in Fds \ {f} : file'[g] = file[g]
        BY <1>0, <3>2 DEF Sockets
      <4> QED
        BY <4>1
    <3> QED
      BY <3>1, <3>2
  <2> QED
    BY <2>1, HolderKept
<1>2. Holder(n) = "unopened"
  BY <1>0, HolderIs
<1>3. Holder(n)' \in Transports \cup {"app", "closed"}
  <2>1. CASE file' = file
    BY <1>0, <2>1, HolderIsNext
  <2>2. ASSUME NEW f \in Fds, file'[f].no = n, f \in app' PROVE Holder(n)' = "app"
    BY <1>0, <2>2, HolderIsNext
  <2>3. ASSUME NEW t \in ops', file'[data'[t].fd].no = n, data'[t].owns
        PROVE  Holder(n)' \in Transports
    <3>1. t \in Transports
      BY DEF IInv, TypeOK
    <3> QED
      BY <1>0, <2>3, <3>1, HolderIsNext
  <2>4. ASSUME NEW f \in Fds, NEW x, x.no = n, file' = [file EXCEPT ![f] = x]
        PROVE  file'[f].no = n
    BY <1>0, <2>4
  <2> QED
    BY <2>1, <2>2, <2>3, <2>4
<1> QED
  BY <1>0, <1>1, <1>2, <1>3, ContractSteps

\* The application closes what it holds, a transport what it owns.
LEMMA ClosingRefines ==
  ASSUME IInv, Numbered, IInv', Numbered', opened' = opened,
         NEW f \in Fds, file[f] # Free, file' = [file EXCEPT ![f] = Free],
         app \subseteq app' \cup {f},
         \A t \in ops : data[t].fd # f => t \in ops' /\ data'[t] = data[t]
  PROVE  Held!Next
<1> PICK n \in Sockets : n = file[f].no
  <2>0. file[f] \in Files
    BY DEF IInv, TypeOK
  <2>1. file[f].no \in 1 .. MaxSockets
    BY <2>0
  <2>2. file[f].no \in Sockets
    BY <2>1, TableAssumption DEF Sockets
  <2> QED
    BY <2>2
<1>0. /\ n \in Sockets /\ n <= opened /\ opened \in Nat
      /\ \A g \in Fds : g # f => file'[g] = file[g] /\ file[g].no # n
      /\ file'[f].no = 0 /\ 0 \notin Sockets
  BY NumbersAreNat, TableAssumption DEF Sockets, Numbered, IInv, TypeOK
<1>1. \A m \in Sockets \ {n} : Holder(m)' = Holder(m)
  <2> SUFFICES ASSUME NEW m \in Sockets, m # n PROVE Holder(m)' = Holder(m)
    OBVIOUS
  <2>1. \A g \in Fds : file'[g].no = m <=> file[g].no = m
    BY <1>0
  <2>2. \A g \in app : file[g].no = m => g \in app'
    OBVIOUS
  <2>3. \A t \in ops : data[t].owns /\ file[data[t].fd].no = m =>
                         t \in ops' /\ data'[t] = data[t]
    OBVIOUS
  <2> QED
    BY <1>0, <2>1, <2>2, <2>3, HolderKept
<1>2. Holder(n) \in Transports \cup {"app"}
  <2>1. CASE f \in app
    BY <1>0, <2>1, HolderIs
  <2>2. ASSUME NEW t \in ops, data[t].owns, data[t].fd = f PROVE Holder(n) \in Transports
    <3>1. t \in Transports /\ file[data[t].fd].no = n
      BY <2>2 DEF IInv, TypeOK
    <3> QED
      BY <2>2, <3>1, HolderIs
  <2> QED
    BY <2>1, <2>2 DEF IInv, NothingLeaked
<1>3. Holder(n)' = "closed"
  <2>1. \A g \in Fds : file'[g].no # n
    BY <1>0
  <2>2. n <= opened'
    BY <1>0
  <2> QED
    BY <1>0, <2>1, <2>2, HolderIsNext
<1> QED
  BY <1>0, <1>1, <1>2, <1>3, ContractSteps

\* A socket handed to init_udp goes to the transport, or nowhere.
LEMMA AdoptionRefines ==
  ASSUME IInv, Numbered, IInv', Numbered', NEW t \in Transports, NEW f \in Fds,
         NEW already \in BOOLEAN, NEW take \in BOOLEAN, NEW tcp,
         InitAdopts(t, f, already, take, tcp)
  PROVE  Held!Next \/ UNCHANGED Table
<1> PICK n : n = file[f].no
  OBVIOUS
<1>0. /\ t \notin ops /\ f \in app /\ opened' = opened
      /\ app' = IF take THEN app \ {f} ELSE app
      /\ ops' = ops \cup {t} /\ data'[t] = [fd |-> f, owns |-> take]
      /\ \A u \in ops : data'[u] = data[u]
  BY DEF InitAdopts, Activate, IInv, TypeOK
<1>1. /\ file[f] # Free /\ file[f] \in Files
      /\ n \in Sockets
      /\ \A g \in Fds : file'[g].no = file[g].no
  BY <1>0 DEF InitAdopts, IInv, TypeOK, AppHoldsOpen, Sockets
<1>2. \A g \in Fds : file[g].no = n => g = f
  BY <1>1, TableAssumption DEF Numbered, Sockets
<1>3. ASSUME NEW m \in Sockets, m # n \/ ~take PROVE Holder(m)' = Holder(m)
  <2>1. \A g \in app : file[g].no = m => g \in app'
    BY <1>0, <1>3
  <2> QED
    BY <1>0, <1>1, <2>1, HolderKept
<1>4. CASE ~take
  BY <1>3, <1>4 DEF Table, Sockets
<1>5. CASE take
  <2>1. Holder(n) = "app"
    BY <1>0, <1>1, HolderIs
  <2>2. Holder(n)' = t
    <3>1. t \in ops' /\ data'[t].owns /\ file'[data'[t].fd].no = n
      BY <1>0, <1>1, <1>5
    <3> QED
      BY <1>1, <3>1, HolderIsNext
  <2> QED
    BY <1>1, <1>3, <2>1, <2>2, ContractSteps
<1> QED
  BY <1>4, <1>5

\* Every step of the transports and the application is one of the contract.
LEMMA StepRefines ==
  IInv /\ Numbered /\ IInv' /\ Numbered' /\ [Next]_vars => Held!Next \/ UNCHANGED Table
<1> SUFFICES ASSUME IInv, Numbered, IInv', Numbered', [Next]_vars
             PROVE  Held!Next \/ UNCHANGED Table
  OBVIOUS
<1>1. ASSUME NEW f \in Fds, AppCloses(f) PROVE Held!Next
  <2>1. \A t \in ops : data[t].fd # f
    BY <1>1, UsedInUse DEF AppCloses
  <2> QED
    BY <1>1, <2>1, ClosingRefines DEF AppCloses, IInv, AppHoldsOpen
<1>2. ASSUME NEW f \in Fds, NEW type, NEW bound, AppOpens(f, type, bound) PROVE Held!Next
  <2>1. f \in app' /\ app \subseteq app' /\ [no |-> opened + 1, type |-> type, bound |-> bound].no = opened + 1
    BY <1>2 DEF AppOpens
  <2> QED
    BY <1>2, <2>1, OpeningRefines DEF AppOpens, IsLowestFree
<1>3. ASSUME NEW t \in Transports, NEW f, InitCreationFails(t, f) PROVE Held!Next
  BY <1>3, OpeningRefines DEF InitCreationFails
<1>4. ASSUME NEW t \in Transports, NEW f \in Fds, NEW tcp, InitCreates(t, f, tcp)
      PROVE  Held!Next
  <2>1. /\ t \in ops' /\ data'[t].owns /\ data'[t].fd = f
        /\ \A u \in ops : u \in ops' /\ data'[u] = data[u]
    BY <1>4 DEF InitCreates, Activate, IInv, TypeOK
  <2>2. [no |-> opened + 1, type |-> "udp", bound |-> TRUE].no = opened + 1
    OBVIOUS
  <2> QED
    BY <1>4, <2>1, <2>2, OpeningRefines DEF InitCreates, IsLowestFree
<1>5. ASSUME NEW t \in Transports, Close(t) PROVE Held!Next \/ UNCHANGED Table
  <2>0. /\ t \in ops /\ opened' = opened /\ app' = app
        /\ \A u \in ops \ {t} : u \in ops' /\ data'[u] = data[u]
    BY <1>5 DEF Close, IInv, TypeOK
  <2>1. CASE data[t].owns
    <3>1. /\ data[t].fd \in Fds /\ file[data[t].fd] # Free
          /\ file' = [file EXCEPT ![data[t].fd] = Free]
      BY <1>5, <2>0, <2>1 DEF Close, IInv, TransportHoldsOpen
    <3> QED
      BY <2>0, <3>1, ClosingRefines
  <2>2. CASE ~data[t].owns
    <3>1. file' = file
      BY <1>5, <2>2 DEF Close
    <3>2. \A m \in Sockets : Holder(m)' = Holder(m)
      BY <2>0, <2>2, <3>1, HolderKept
    <3> QED
      BY <3>2 DEF Table, Sockets
  <2> QED
    BY <2>1, <2>2
<1>6. ASSUME UNCHANGED <<file, opened, app, ops, data>> PROVE UNCHANGED Table
  BY <1>6 DEF Table, Holder, Owners
<1> QED
  BY <1>1, <1>2, <1>3, <1>4, <1>5, <1>6, AdoptionRefines
     DEF Next, InitRejects, SetTcpFd, vars

\* Initially every socket is still to be opened.
LEMMA InitRefines == Init => Held!Init
BY TableAssumption DEF Init, Held!Init, Held!Sockets, Holder

(***************************************************************************)
(* The transports implement the contract of udp_transport.h: a socket has  *)
(* one holder, changes hands only by a successful init and is closed once  *)
(* (udp_transport.c:113-127, 191-205), for every number of transports,     *)
(* descriptors and sockets.                                                *)
(***************************************************************************)
THEOREM ImplementsOwnership == Spec => OwnershipSpec
<1>1. Spec => []Numbered
  BY InitNumbered, NextNumbered, Invariance, PTL DEF Spec
<1>2. IInv /\ Numbered /\ IInv' /\ Numbered' /\ [Next]_vars => [Held!Next]_Table
  BY StepRefines
<1>3. IInv /\ Numbered /\ IInv' /\ Numbered' /\ [Next]_vars =>
        [Held!Next]_([n \in 1 .. MaxSockets |-> Holder(n)])
  BY <1>2 DEF Table
<1> QED
  BY <1>1, <1>3, InitRefines, Invariance, PTL DEF Spec, OwnershipSpec, Held!Spec
=============================================================================
