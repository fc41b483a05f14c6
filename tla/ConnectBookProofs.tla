------------------------- MODULE ConnectBookProofs -------------------------
(***************************************************************************)
(* For any number of connections, socket numbers, ids and groups: the      *)
(* types, the change buffer, and the agreement of the three maps until a   *)
(* new connection takes over an id that is bound to another.               *)
(***************************************************************************)
EXTENDS ConnectBook, TLAPS

---------------------------------------------------------------------------
(* notify_change.                                                          *)

(* notify_change keeps the buffer a sequence of changes, and tells readers. *)
LEMMA ChangeIsTyped ==
  ASSUME NEW cmd \in {"add", "remove", "rebind", "set_group", "divide_gp"},
         NEW vfd \in Vfds \union {0}, NEW g \in Groups,
         version \in Nat, changes \in Seq(Changes), NotifyChange(cmd, vfd, g)
  PROVE  version' \in Nat /\ changes' \in Seq(Changes) /\ told' \subseteq Readers
<1> DEFINE new == [cmd |-> cmd, virtual_fd |-> vfd, group_name |-> g,
                   version |-> version + 1]
           all == Append(changes, new)
<1>1. new \in Changes
  BY DEF Changes
<1>2. all \in Seq(Changes) /\ all # << >>
  BY <1>1
<1>3. Tail(all) \in Seq(Changes)
  BY <1>2
<1>4. QED
  BY <1>2, <1>3 DEF NotifyChange, Asleep

(* The buffer holds the latest changes without a gap.                      *)
LatestInv ==
  /\ version \in Nat
  /\ changes \in Seq(Changes)
  /\ ChangesAreLatest

(* notify_change keeps the buffer gap-free, also when it drops a change.   *)
LEMMA ChangeIsLatest ==
  ASSUME NEW cmd \in {"add", "remove", "rebind", "set_group", "divide_gp"},
         NEW vfd \in Vfds \union {0}, NEW g \in Groups,
         LatestInv, NotifyChange(cmd, vfd, g)
  PROVE  LatestInv'
<1> DEFINE new == [cmd |-> cmd, virtual_fd |-> vfd, group_name |-> g,
                   version |-> version + 1]
           all == Append(changes, new)
<1>1. version' = version + 1 /\ version' \in Nat /\ changes' \in Seq(Changes)
  BY ChangeIsTyped DEF LatestInv, NotifyChange
<1>2. new \in Changes /\ new.version = version + 1
  BY DEF Changes, LatestInv
<1> HIDE DEF new
<1>3. /\ all \in Seq(Changes) /\ Len(all) = Len(changes) + 1
      /\ \A i \in 1 .. Len(all) : all[i].version = version' - Len(all) + i
  <2>1. all \in Seq(Changes) /\ Len(all) = Len(changes) + 1
    BY <1>2 DEF LatestInv
  <2>2. ASSUME NEW i \in 1 .. Len(all) PROVE all[i].version = version' - Len(all) + i
    <3>1. CASE i = Len(all)
      BY <3>1, <2>1, <1>1, <1>2 DEF LatestInv
    <3>2. CASE i # Len(all)
      <4>1. i \in 1 .. Len(changes) /\ all[i] = changes[i]
        BY <3>2, <2>1, <1>2 DEF LatestInv
      <4>2. changes[i].version = version - Len(changes) + i
        BY <4>1 DEF LatestInv, ChangesAreLatest
      <4>3. QED
        BY <4>1, <4>2, <2>1, <1>1 DEF LatestInv
    <3>3. QED
      BY <3>1, <3>2
  <2>3. QED
    BY <2>1, <2>2
<1>4. changes' = IF Len(all) > MaxChanges THEN Tail(all) ELSE all
  BY DEF NotifyChange, new
<1> HIDE DEF all
<1>5. CASE Len(all) > MaxChanges
  <2>1. changes' = Tail(all) /\ Len(changes') = Len(all) - 1
        /\ \A i \in 1 .. Len(changes') : changes'[i] = all[i + 1]
    BY <1>3, <1>4, <1>5, BookAssumption
  <2>2. Len(changes') <= MaxChanges
    BY <2>1, <1>3, BookAssumption DEF LatestInv, ChangesAreLatest
  <2>3. ASSUME NEW i \in 1 .. Len(changes')
        PROVE  changes'[i].version = version' - Len(changes') + i
    <3>1. Len(changes') = Len(all) - 1 /\ Len(all) \in Nat /\ i \in 1 .. Len(all) - 1
      BY <2>1, <1>3
    <3>2. all[i + 1].version = version' - Len(all) + (i + 1)
      BY <3>1, <1>3
    <3>3. changes'[i] = all[i + 1]
      BY <2>1
    <3>4. QED
      BY <3>1, <3>2, <3>3, <1>1
  <2>4. Len(changes') \in Nat /\ DOMAIN changes' = 1 .. Len(changes')
    BY <1>1
  <2>5. QED
    BY <1>1, <2>2, <2>3, <2>4 DEF LatestInv, ChangesAreLatest
<1>6. CASE ~(Len(all) > MaxChanges)
  <2>1. changes' = all
    BY <1>4, <1>6
  <2>2. Len(changes') <= MaxChanges
    BY <2>1, <1>3, <1>6, BookAssumption
  <2>3. \A i \in 1 .. Len(changes') : changes'[i].version = version' - Len(changes') + i
    BY <2>1, <1>3
  <2>4. QED
    BY <1>1, <2>2, <2>3 DEF LatestInv, ChangesAreLatest
<1>7. QED
  BY <1>5, <1>6

---------------------------------------------------------------------------
(* Types.  dis_connection finds an open connection by its socket number,   *)
(* because no two open connections share one and each is registered.       *)
DistinctSocks ==
  \A c, d \in Conns : life[c] = "open" /\ life[d] = "open" /\ sock[c] = sock[d] => c = d

OpenAreRegistered ==
  DOMAIN sock_to_virtual = {sock[c] : c \in {d \in Conns : life[d] = "open"}}

BookInv == TypeOK /\ DistinctSocks /\ OpenAreRegistered

(* The maps as functions of their domains.                                 *)
LEMMA PutValue ==
  ASSUME NEW f, NEW k, NEW v
  PROVE  /\ DOMAIN Put(f, k, v) = DOMAIN f \union {k}
         /\ Put(f, k, v)[k] = v
         /\ \A x \in DOMAIN f : x # k => Put(f, k, v)[x] = f[x]
BY DEF Put

(* Dropping a key takes out that key and no other.                         *)
LEMMA DropValue ==
  ASSUME NEW f, NEW k
  PROVE  /\ DOMAIN Drop(f, k) = DOMAIN f \ {k}
         /\ \A x \in DOMAIN f \ {k} : Drop(f, k)[x] = f[x]
BY DEF Drop, Restrict

Maps(f, K, V) == DOMAIN f \subseteq K /\ \A x \in DOMAIN f : f[x] \in V

(* Setting a key to a value of the right type keeps a map's type.          *)
LEMMA PutMaps ==
  ASSUME NEW f, NEW K, NEW V, Maps(f, K, V), NEW k \in K, NEW v \in V
  PROVE  Maps(Put(f, k, v), K, V)
BY DEF Put, Maps

(* Dropping a key keeps a map's type.                                      *)
LEMMA DropMaps ==
  ASSUME NEW f, NEW K, NEW V, Maps(f, K, V), NEW k
  PROVE  Maps(Drop(f, k), K, V)
BY DEF Drop, Restrict, Maps

Entries == [conn : Conns, group : Groups]

(* TypeOK in terms of Maps.                                                *)
LEMMA TypeMaps ==
  TypeOK <=> /\ life \in [Conns -> {"new", "open", "closed"}]
             /\ sock \in [Conns -> Socks]
             /\ Maps(virtual_map, Vfds, Entries)
             /\ Maps(sock_to_virtual, Socks, Vfds)
             /\ group_map \in [Groups -> SUBSET Vfds]
             /\ version \in Nat /\ changes \in Seq(Changes)
             /\ waiting \in [Readers -> Nat \union {-1}] /\ told \subseteq Readers
             /\ stopped \in {"no", "flag", "yes"} /\ overwritten \in BOOLEAN
BY DEF TypeOK, Maps, Entries

(* A change of groups keeps group_map_ a map of sets of virtual fds.       *)
LEMMA MovedIsTyped ==
  ASSUME group_map \in [Groups -> SUBSET Vfds], NEW vfd, NEW old \in Groups
  PROVE  /\ Erased(vfd, old) \in [Groups -> SUBSET Vfds]
         /\ \A new \in Vfds, g \in Groups :
              Moved(vfd, old, new, g) \in [Groups -> SUBSET Vfds]
BY DEF Erased, Moved

(* on_connection keeps types and registers the new connection.             *)
LEMMA OnConnectionTyped ==
  ASSUME BookInv, NEW c \in Conns, OnConnection(c)
  PROVE  BookInv'
<1>1. /\ life' = [life EXCEPT ![c] = "open"] /\ sock' = sock
      /\ \A d \in Conns : life[d] = "open" => sock[d] # sock[c]
      /\ virtual_map' = Put(virtual_map, sock[c], [conn |-> c, group |-> -1])
      /\ sock_to_virtual' = Put(sock_to_virtual, sock[c], sock[c])
      /\ NotifyChange("add", sock[c], -1) /\ UNCHANGED <<group_map, waiting, stopped>>
      /\ overwritten' \in BOOLEAN
  BY DEF OnConnection, BookInv, TypeOK
<1>2. /\ sock[c] \in Socks /\ sock[c] \in Vfds /\ -1 \in Groups
      /\ [conn |-> c, group |-> -1] \in Entries
  BY BookAssumption DEF BookInv, TypeOK, Vfds, Entries
<1>3. version' \in Nat /\ changes' \in Seq(Changes) /\ told' \subseteq Readers
  BY <1>1, <1>2, ChangeIsTyped DEF BookInv, TypeOK
<1>4. Maps(virtual_map', Vfds, Entries) /\ Maps(sock_to_virtual', Socks, Vfds)
  BY <1>1, <1>2, PutMaps, TypeMaps DEF BookInv
<1>5. life' \in [Conns -> {"new", "open", "closed"}]
  BY <1>1 DEF BookInv, TypeOK
<1>6. TypeOK'
  BY <1>1, <1>3, <1>4, <1>5 DEF BookInv, TypeOK, Maps, Entries
<1>7. DistinctSocks'
  BY <1>1 DEF BookInv, TypeOK, DistinctSocks
<1>8. OpenAreRegistered'
  <2>1. DOMAIN sock_to_virtual' = DOMAIN sock_to_virtual \union {sock[c]}
    BY <1>1, PutValue
  <2>2. QED
    BY <1>1, <2>1 DEF BookInv, TypeOK, OpenAreRegistered
<1>9. QED
  BY <1>6, <1>7, <1>8 DEF BookInv

(* dis_connection keeps types and takes out only its own socket number.    *)
LEMMA DisConnectionTyped ==
  ASSUME BookInv, NEW c \in Conns, DisConnection(c)
  PROVE  BookInv'
<1> DEFINE vfd == sock_to_virtual[sock[c]]
<1>1. /\ life' = [life EXCEPT ![c] = "closed"] /\ sock' = sock /\ life[c] = "open"
      /\ sock_to_virtual' = Drop(sock_to_virtual, sock[c])
      /\ NotifyChange("remove", vfd, -1) /\ UNCHANGED <<waiting, stopped, overwritten>>
  BY DEF DisConnection
<1>2. sock[c] \in DOMAIN sock_to_virtual /\ vfd \in Vfds /\ -1 \in Groups
  BY <1>1, BookAssumption DEF BookInv, TypeOK, OpenAreRegistered
<1>3. version' \in Nat /\ changes' \in Seq(Changes) /\ told' \subseteq Readers
  BY <1>1, <1>2, ChangeIsTyped DEF BookInv, TypeOK
<1>4. Maps(virtual_map', Vfds, Entries) /\ group_map' \in [Groups -> SUBSET Vfds]
  <2>1. CASE Known(vfd)
    <3>1. group_map' = Erased(vfd, virtual_map[vfd].group)
          /\ virtual_map' = Drop(virtual_map, vfd)
      BY <2>1 DEF DisConnection
    <3>2. virtual_map[vfd].group \in Groups
      BY <2>1 DEF Known, BookInv, TypeOK
    <3>3. group_map' \in [Groups -> SUBSET Vfds]
      BY <3>1, <3>2, MovedIsTyped DEF BookInv, TypeOK
    <3>4. Maps(virtual_map', Vfds, Entries)
      BY <3>1, DropMaps, TypeMaps DEF BookInv
    <3>5. QED
      BY <3>3, <3>4
  <2>2. CASE ~Known(vfd)
    BY <2>2, TypeMaps DEF DisConnection, BookInv
  <2>3. QED
    BY <2>1, <2>2
<1>5. Maps(sock_to_virtual', Socks, Vfds)
  BY <1>1, DropMaps, TypeMaps DEF BookInv
<1>6. life' \in [Conns -> {"new", "open", "closed"}]
  BY <1>1 DEF BookInv, TypeOK
<1>7. TypeOK'
  BY <1>1, <1>3, <1>4, <1>5, <1>6 DEF BookInv, TypeOK, Maps, Entries
<1>8. DistinctSocks'
  BY <1>1 DEF BookInv, TypeOK, DistinctSocks
<1>9. OpenAreRegistered'
  <2>1. DOMAIN sock_to_virtual' = DOMAIN sock_to_virtual \ {sock[c]}
    BY <1>1, DropValue
  <2>2. QED
    BY <1>1, <2>1 DEF BookInv, TypeOK, OpenAreRegistered, DistinctSocks
<1>10. QED
  BY <1>7, <1>8, <1>9 DEF BookInv

(* rebind keeps types and registers or forgets no socket number.           *)
LEMMA RebindTyped ==
  ASSUME BookInv, NEW c \in Conns, NEW new \in Ids, NEW g \in Groups, Rebind(c, new, g)
  PROVE  BookInv'
<1> DEFINE old == sock_to_virtual[sock[c]]
           entry == [virtual_map[old] EXCEPT !.group = g]
<1>1. /\ sock[c] \in DOMAIN sock_to_virtual /\ old \in DOMAIN virtual_map
      /\ virtual_map' = Put(Drop(virtual_map, old), new, entry)
      /\ sock_to_virtual' = Put(sock_to_virtual, sock[c], new)
      /\ NotifyChange("rebind", new, g) /\ UNCHANGED <<life, sock, waiting, stopped, overwritten>>
      /\ group_map' = group_map \/ group_map' = Moved(old, virtual_map[old].group, new, g)
  BY DEF Rebind, Registered, Known
<1>2. virtual_map[old] \in Entries /\ new \in Vfds /\ sock[c] \in Socks
  BY <1>1 DEF BookInv, TypeOK, Vfds, Entries
<1>3. entry \in Entries
  BY <1>2 DEF Entries
<1>4. version' \in Nat /\ changes' \in Seq(Changes) /\ told' \subseteq Readers
  BY <1>1, <1>2, ChangeIsTyped DEF BookInv, TypeOK
<1>5. Maps(virtual_map', Vfds, Entries)
  <2>1. Maps(Drop(virtual_map, old), Vfds, Entries)
    BY DropMaps, TypeMaps DEF BookInv
  <2>2. QED
    BY <1>1, <1>2, <1>3, <2>1, PutMaps
<1>6. group_map' \in [Groups -> SUBSET Vfds]
  <2>1. virtual_map[old].group \in Groups
    BY <1>2 DEF Entries
  <2>2. group_map \in [Groups -> SUBSET Vfds]
    BY DEF BookInv, TypeOK
  <2>3. \A from \in Groups : Moved(old, from, new, g) \in [Groups -> SUBSET Vfds]
    BY <1>2, <2>2, MovedIsTyped
  <2>4. QED
    BY <1>1, <2>1, <2>2, <2>3
<1>7. Maps(sock_to_virtual', Socks, Vfds)
  BY <1>1, <1>2, PutMaps, TypeMaps DEF BookInv
<1>8. DOMAIN sock_to_virtual' = DOMAIN sock_to_virtual
  <2>1. DOMAIN sock_to_virtual' = DOMAIN sock_to_virtual \union {sock[c]}
    <3>1. sock_to_virtual' = Put(sock_to_virtual, sock[c], new)
      BY <1>1
    <3>2. QED
      BY <3>1 DEF Put
  <2>2. QED
    BY <1>1, <2>1
<1>9. TypeOK'
  BY <1>1, <1>4, <1>5, <1>6, <1>7 DEF BookInv, TypeOK, Maps, Entries
<1>10. QED
  BY <1>1, <1>8, <1>9 DEF BookInv, DistinctSocks, OpenAreRegistered

(* set_group keeps types.                                                  *)
LEMMA SetGroupTyped ==
  ASSUME BookInv, NEW vfd \in Vfds, NEW g \in Groups, SetGroup(vfd, g)
  PROVE  BookInv'
<1>1. virtual_map[vfd] \in [conn : Conns, group : Groups]
  BY DEF SetGroup, Known, BookInv, TypeOK
<1>2. version' \in Nat /\ changes' \in Seq(Changes) /\ told' \subseteq Readers
  BY ChangeIsTyped DEF SetGroup, BookInv, TypeOK
<1>3. group_map' \in [Groups -> SUBSET Vfds]
  BY <1>1, MovedIsTyped DEF SetGroup, BookInv, TypeOK
<1>4. /\ DOMAIN virtual_map' \subseteq Vfds
      /\ \A v \in DOMAIN virtual_map' : virtual_map'[v] \in [conn : Conns, group : Groups]
  BY <1>1 DEF SetGroup, BookInv, TypeOK
<1>5. QED
  BY <1>2, <1>3, <1>4 DEF SetGroup, BookInv, TypeOK, DistinctSocks, OpenAreRegistered

(* assign_group keeps types, also when it moves many entries at once.      *)
LEMMA AssignGroupTyped ==
  ASSUME BookInv, NEW g \in Groups, NEW vfds \in SUBSET Vfds, AssignGroup(g, vfds)
  PROVE  BookInv'
<1>1. version' \in Nat /\ changes' \in Seq(Changes) /\ told' \subseteq Readers
  BY ChangeIsTyped DEF AssignGroup, BookInv, TypeOK
<1>2. group_map' \in [Groups -> SUBSET Vfds]
  BY DEF AssignGroup, BookInv, TypeOK
<1>3. /\ DOMAIN virtual_map' \subseteq Vfds
      /\ \A v \in DOMAIN virtual_map' : virtual_map'[v] \in [conn : Conns, group : Groups]
  BY BookAssumption DEF AssignGroup, BookInv, TypeOK
<1>4. QED
  BY <1>1, <1>2, <1>3 DEF AssignGroup, BookInv, TypeOK, DistinctSocks, OpenAreRegistered

(* So does every step.                                                     *)
LEMMA StepIsTyped ==
  ASSUME BookInv, [Next]_vars
  PROVE  BookInv'
<1>1. CASE \E c \in Conns : OnConnection(c) \/ DisConnection(c)
  BY <1>1, OnConnectionTyped, DisConnectionTyped
<1>2. CASE \E c \in Conns, new \in Ids, g \in Groups : Rebind(c, new, g)
  BY <1>2, RebindTyped
<1>3. CASE \E vfd \in Vfds, g \in Groups : SetGroup(vfd, g)
  BY <1>3, SetGroupTyped
<1>4. CASE \E g \in Groups, vfds \in SUBSET Vfds : AssignGroup(g, vfds)
  BY <1>4, AssignGroupTyped
<1>5. CASE TakeChanges
  <2>1. changes' \in Seq(Changes)
    BY <1>5 DEF TakeChanges
  <2>2. QED
    BY <1>5, <2>1 DEF TakeChanges, mapVars, waitVars, BookInv, TypeOK, DistinctSocks, OpenAreRegistered
<1>6. CASE UNCHANGED vars
  BY <1>6 DEF vars, mapVars, waitVars, BookInv, TypeOK, DistinctSocks, OpenAreRegistered
<1>7. CASE \E r \in Readers : WaitEnds(r) \/ \E old \in 0 .. version : WaitVersionChange(r, old)
  <2>1. waiting' \in [Readers -> Nat \union {-1}] /\ told' \subseteq Readers
    BY <1>7 DEF WaitEnds, WaitVersionChange, BookInv, TypeOK
  <2>2. UNCHANGED <<life, sock, mapVars, version, changes, stopped>>
    BY <1>7 DEF WaitEnds, WaitVersionChange
  <2>3. QED
    BY <2>1, <2>2 DEF mapVars, BookInv, TypeOK, DistinctSocks, OpenAreRegistered
<1>8. CASE ShutdownFlag \/ ShutdownNotify
  <2>1. stopped' \in {"no", "flag", "yes"} /\ told' \subseteq Readers
    BY <1>8 DEF ShutdownFlag, ShutdownNotify, Asleep, BookInv, TypeOK
  <2>2. UNCHANGED <<life, sock, mapVars, version, changes, waiting>>
    BY <1>8 DEF ShutdownFlag, ShutdownNotify
  <2>3. QED
    BY <2>1, <2>2 DEF mapVars, BookInv, TypeOK, DistinctSocks, OpenAreRegistered
<1>9. QED
  BY <1>1, <1>2, <1>3, <1>4, <1>5, <1>6, <1>7, <1>8 DEF Next

(* The empty registry is typed.                                            *)
LEMMA InitIsTyped == Init => BookInv
<1> SUFFICES ASSUME Init PROVE BookInv
  OBVIOUS
<1>1. /\ life \in [Conns -> {"new", "open", "closed"}] /\ sock \in [Conns -> Socks]
      /\ group_map \in [Groups -> SUBSET Vfds] /\ version \in Nat /\ changes \in Seq(Changes)
  BY DEF Init
<1>2. DOMAIN virtual_map = {} /\ DOMAIN sock_to_virtual = {}
  BY DEF Init
<1>3. waiting \in [Readers -> Nat \union {-1}]
  BY DEF Init
<1>4. QED
  BY <1>1, <1>2, <1>3 DEF Init, BookInv, TypeOK, DistinctSocks, OpenAreRegistered

(* The registry's maps keep their types whatever operations run in         *)
(* whatever order; with it, a connection that is open is always found by   *)
(* its socket number when it is closed.                                    *)
THEOREM TypeCorrect == Spec => []TypeOK
<1>1. BookInv => TypeOK
  BY DEF BookInv
<1>2. QED
  BY InitIsTyped, StepIsTyped, <1>1, PTL DEF Spec

---------------------------------------------------------------------------
(* Every operation that reports a change reports one the buffer can hold.  *)
LEMMA StepNotifies ==
  ASSUME BookInv, [Next]_vars
  PROVE  \/ UNCHANGED <<version, changes>>
         \/ version' = version /\ changes' = << >>
         \/ \E cmd \in {"add", "remove", "rebind", "set_group", "divide_gp"},
              vfd \in Vfds \union {0}, g \in Groups : NotifyChange(cmd, vfd, g)
<1>0. -1 \in Groups
  BY BookAssumption
<1>1. ASSUME NEW c \in Conns, OnConnection(c)
      PROVE  \E vfd \in Vfds : NotifyChange("add", vfd, -1)
  <2>1. sock[c] \in Vfds
    BY DEF BookInv, TypeOK, Vfds
  <2>2. QED
    BY <1>1, <2>1 DEF OnConnection
<1>2. ASSUME NEW c \in Conns, DisConnection(c)
      PROVE  \E vfd \in Vfds : NotifyChange("remove", vfd, -1)
  <2>1. sock_to_virtual[sock[c]] \in Vfds
    BY <1>2 DEF DisConnection, BookInv, TypeOK, OpenAreRegistered
  <2>2. QED
    BY <1>2, <2>1 DEF DisConnection
<1>3. ASSUME NEW c \in Conns, NEW new \in Ids, NEW g \in Groups, Rebind(c, new, g)
      PROVE  new \in Vfds /\ NotifyChange("rebind", new, g)
  BY <1>3 DEF Rebind, Vfds
<1>4. ASSUME NEW vfd \in Vfds, NEW g \in Groups, SetGroup(vfd, g)
      PROVE  NotifyChange("set_group", vfd, g)
  BY <1>4 DEF SetGroup
<1>5. ASSUME NEW g \in Groups, NEW vfds \in SUBSET Vfds, AssignGroup(g, vfds)
      PROVE  NotifyChange("divide_gp", 0, g)
  BY <1>5 DEF AssignGroup
<1>6. CASE TakeChanges
  BY <1>6 DEF TakeChanges
<1>7. CASE UNCHANGED vars
  BY <1>7 DEF vars
<1>8. CASE \E r \in Readers : WaitEnds(r) \/ \E old \in 0 .. version : WaitVersionChange(r, old)
  BY <1>8 DEF WaitEnds, WaitVersionChange
<1>9. CASE ShutdownFlag \/ ShutdownNotify
  BY <1>9 DEF ShutdownFlag, ShutdownNotify
<1>10. QED
  BY <1>0, <1>1, <1>2, <1>3, <1>4, <1>5, <1>6, <1>7, <1>8, <1>9 DEF Next

(* A session that takes the changes sees the latest ones without a gap,    *)
(* however many it missed: notify_change drops the oldest, and nothing     *)
(* else touches the buffer or the version out of step.                     *)
THEOREM LatestChanges == Spec => []ChangesAreLatest
<1>1. Init => LatestInv
  <2> SUFFICES ASSUME Init PROVE LatestInv
    OBVIOUS
  <2>1. version = 0 /\ changes = << >> /\ Len(changes) = 0
    BY DEF Init
  <2>2. QED
    BY <2>1, BookAssumption DEF LatestInv, ChangesAreLatest
<1>2. BookInv /\ LatestInv /\ [Next]_vars => LatestInv'
  <2> SUFFICES ASSUME BookInv, LatestInv, [Next]_vars PROVE LatestInv'
    OBVIOUS
  <2>1. CASE UNCHANGED <<version, changes>>
    BY <2>1 DEF LatestInv, ChangesAreLatest
  <2>2. CASE version' = version /\ changes' = << >>
    <3>1. Len(changes') = 0 /\ changes' \in Seq(Changes)
      BY <2>2
    <3>2. QED
      BY <2>2, <3>1, BookAssumption DEF LatestInv, ChangesAreLatest
  <2>3. ASSUME NEW cmd \in {"add", "remove", "rebind", "set_group", "divide_gp"},
               NEW vfd \in Vfds \union {0}, NEW g \in Groups, NotifyChange(cmd, vfd, g)
        PROVE  LatestInv'
    BY <2>3, ChangeIsLatest
  <2>4. QED
    BY <2>1, <2>2, <2>3, StepNotifies
<1>3. LatestInv => ChangesAreLatest
  BY DEF LatestInv
<1>4. QED
  BY InitIsTyped, StepIsTyped, <1>1, <1>2, <1>3, PTL DEF Spec

---------------------------------------------------------------------------
(* The three maps agree as long as on_connection, which does not look      *)
(* whether its key is there, has not replaced an entry that a rebind put   *)
(* under that number.                                                      *)
OpenIsRouted ==
  \A c \in Conns : life[c] = "open" =>
    LET vfd == sock_to_virtual[sock[c]]
    IN  Known(vfd) /\ virtual_map[vfd].conn = c

OnlyOpenIsRouted ==
  DOMAIN virtual_map = {sock_to_virtual[s] : s \in DOMAIN sock_to_virtual}

MembersSaySo ==
  \A g \in Groups : \A v \in group_map[g] : Known(v) /\ virtual_map[v].group = g

GroupsHoldThem ==
  \A g \in Groups : g >= 0 =>
    \A v \in DOMAIN virtual_map : virtual_map[v].group = g => v \in group_map[g]

IdInv == BookInv /\ OpenIsRouted /\ OnlyOpenIsRouted

AgreeInv == IdInv /\ MembersSaySo /\ GroupsHoldThem

(* Two registered socket numbers never share a virtual fd.                 *)
LEMMA OwnersDiffer ==
  ASSUME IdInv, NEW s \in DOMAIN sock_to_virtual, NEW r \in DOMAIN sock_to_virtual,
         sock_to_virtual[s] = sock_to_virtual[r]
  PROVE  s = r
<1>1. PICK c \in Conns : life[c] = "open" /\ sock[c] = s
  BY DEF IdInv, BookInv, OpenAreRegistered
<1>2. PICK d \in Conns : life[d] = "open" /\ sock[d] = r
  BY DEF IdInv, BookInv, OpenAreRegistered
<1>3. c = d
  BY <1>1, <1>2 DEF IdInv, OpenIsRouted
<1>4. QED
  BY <1>1, <1>2, <1>3

(* on_connection adds an entry under a key that nobody had.                *)
LEMMA OnConnectionAgrees ==
  ASSUME AgreeInv, NEW c \in Conns, OnConnection(c), ~overwritten'
  PROVE  AgreeInv'
<1> DEFINE s == sock[c]
           entry == [conn |-> c, group |-> -1]
<1>1. /\ life' = [life EXCEPT ![c] = "open"] /\ sock' = sock
      /\ \A d \in Conns : life[d] = "open" => sock[d] # s
      /\ virtual_map' = Put(virtual_map, s, entry)
      /\ sock_to_virtual' = Put(sock_to_virtual, s, s)
      /\ group_map' = group_map /\ ~Registered(c)
  BY DEF OnConnection
<1>2. s \in Socks /\ s \notin DOMAIN sock_to_virtual /\ life \in [Conns -> {"new", "open", "closed"}]
  BY <1>1 DEF AgreeInv, IdInv, BookInv, TypeOK, Registered
<1>3. s \notin DOMAIN virtual_map
  BY DEF OnConnection, Known
<1>4. BookInv'
  BY OnConnectionTyped DEF AgreeInv, IdInv
<1>5. /\ DOMAIN virtual_map' = DOMAIN virtual_map \union {s}
      /\ virtual_map'[s] = entry
      /\ \A v \in DOMAIN virtual_map : virtual_map'[v] = virtual_map[v]
  BY <1>1, <1>3 DEF Put
<1>6. /\ DOMAIN sock_to_virtual' = DOMAIN sock_to_virtual \union {s}
      /\ sock_to_virtual'[s] = s
      /\ \A r \in DOMAIN sock_to_virtual : sock_to_virtual'[r] = sock_to_virtual[r]
  BY <1>1, <1>2 DEF Put
<1>8. OpenIsRouted'
  <2> SUFFICES ASSUME NEW d \in Conns, life'[d] = "open"
               PROVE  /\ sock_to_virtual'[sock[d]] \in DOMAIN virtual_map'
                      /\ virtual_map'[sock_to_virtual'[sock[d]]].conn = d
    BY <1>1 DEF OpenIsRouted, Known
  <2>1. CASE d = c
    BY <2>1, <1>5, <1>6
  <2>2. CASE d # c
    <3>1. life[d] = "open"
      BY <2>2, <1>1, <1>2
    <3>2. sock[d] \in DOMAIN sock_to_virtual
      BY <3>1 DEF AgreeInv, IdInv, BookInv, OpenAreRegistered
    <3>3. /\ sock_to_virtual[sock[d]] \in DOMAIN virtual_map
          /\ virtual_map[sock_to_virtual[sock[d]]].conn = d
      BY <3>1 DEF AgreeInv, IdInv, OpenIsRouted, Known
    <3>4. QED
      BY <3>2, <3>3, <1>5, <1>6
  <2>3. QED
    BY <2>1, <2>2
<1>9. OnlyOpenIsRouted'
  BY <1>5, <1>6, <1>2 DEF OnlyOpenIsRouted, AgreeInv, IdInv
<1>10. MembersSaySo'
  BY <1>1, <1>5 DEF MembersSaySo, AgreeInv, Known
<1>11. GroupsHoldThem'
  BY <1>1, <1>5 DEF GroupsHoldThem, AgreeInv
<1>12. QED
  BY <1>4, <1>8, <1>9, <1>10, <1>11 DEF AgreeInv, IdInv

(* dis_connection takes the connection's entry out of all three maps.      *)
LEMMA DisConnectionAgrees ==
  ASSUME AgreeInv, NEW c \in Conns, DisConnection(c)
  PROVE  AgreeInv'
<1> DEFINE s == sock[c]
           vfd == sock_to_virtual[s]
<1>1. life' = [life EXCEPT ![c] = "closed"] /\ sock' = sock /\ life[c] = "open"
      /\ sock_to_virtual' = Drop(sock_to_virtual, s)
  BY DEF DisConnection
<1>2. s \in DOMAIN sock_to_virtual /\ vfd \in DOMAIN virtual_map
      /\ life \in [Conns -> {"new", "open", "closed"}]
      /\ virtual_map[vfd].group \in Groups /\ group_map \in [Groups -> SUBSET Vfds]
  BY <1>1 DEF AgreeInv, IdInv, BookInv, TypeOK, OpenAreRegistered, OpenIsRouted, Known
<1>3. BookInv'
  BY DisConnectionTyped DEF AgreeInv, IdInv
<1>4. /\ virtual_map' = Drop(virtual_map, vfd)
      /\ group_map' = Erased(vfd, virtual_map[vfd].group)
  BY <1>2 DEF DisConnection, Known
<1>5. /\ DOMAIN virtual_map' = DOMAIN virtual_map \ {vfd}
      /\ \A v \in DOMAIN virtual_map \ {vfd} : virtual_map'[v] = virtual_map[v]
  BY <1>4, DropValue
<1>6. /\ DOMAIN sock_to_virtual' = DOMAIN sock_to_virtual \ {s}
      /\ \A r \in DOMAIN sock_to_virtual \ {s} :
           sock_to_virtual'[r] = sock_to_virtual[r] /\ sock_to_virtual[r] # vfd
  <2>1. \A r \in DOMAIN sock_to_virtual \ {s} : sock_to_virtual[r] # vfd
    BY <1>2, OwnersDiffer DEF AgreeInv
  <2>2. QED
    BY <2>1, <1>1, DropValue
<1>8. OpenIsRouted'
  <2> SUFFICES ASSUME NEW d \in Conns, life'[d] = "open"
               PROVE  /\ sock_to_virtual'[sock[d]] \in DOMAIN virtual_map'
                      /\ virtual_map'[sock_to_virtual'[sock[d]]].conn = d
    BY <1>1 DEF OpenIsRouted, Known
  <2>1. d # c /\ life[d] = "open"
    BY <1>1, <1>2
  <2>2. sock[d] \in DOMAIN sock_to_virtual \ {s}
    BY <2>1, <1>1 DEF AgreeInv, IdInv, BookInv, OpenAreRegistered, DistinctSocks
  <2>3. /\ sock_to_virtual[sock[d]] \in DOMAIN virtual_map
        /\ virtual_map[sock_to_virtual[sock[d]]].conn = d
    BY <2>1 DEF AgreeInv, IdInv, OpenIsRouted, Known
  <2>4. QED
    BY <2>2, <2>3, <1>5, <1>6
<1>9. OnlyOpenIsRouted'
  BY <1>5, <1>6, <1>2 DEF OnlyOpenIsRouted, AgreeInv, IdInv
<1>10. \A g \in Groups : group_map'[g] = group_map[g] \ {vfd}
  <2>1. \A g \in Groups : g # virtual_map[vfd].group => vfd \notin group_map[g]
    BY DEF AgreeInv, MembersSaySo
  <2>2. QED
    BY <2>1, <1>2, <1>4 DEF Erased
<1>11. MembersSaySo'
  BY <1>10, <1>5 DEF MembersSaySo, AgreeInv, Known
<1>12. GroupsHoldThem'
  BY <1>10, <1>5 DEF GroupsHoldThem, AgreeInv
<1>13. QED
  BY <1>3, <1>8, <1>9, <1>11, <1>12 DEF AgreeInv, IdInv

(* rebind moves the connection's entry to the new key in all three maps.   *)
LEMMA RebindAgrees ==
  ASSUME AgreeInv,
         NEW c \in Conns, NEW new \in Ids, NEW g \in Groups, Rebind(c, new, g)
  PROVE  AgreeInv'
<1> DEFINE s == sock[c]
           old == sock_to_virtual[s]
           was == virtual_map[old].group
           entry == [virtual_map[old] EXCEPT !.group = g]
<1>1. /\ s \in DOMAIN sock_to_virtual /\ old \in DOMAIN virtual_map
      /\ new # old => new \notin DOMAIN virtual_map
      /\ virtual_map' = Put(Drop(virtual_map, old), new, entry)
      /\ sock_to_virtual' = Put(sock_to_virtual, s, new)
      /\ life' = life /\ sock' = sock
      /\ group_map' = IF new = old /\ was = g THEN group_map ELSE Moved(old, was, new, g)
  BY DEF Rebind, Registered, Known
<1>2. /\ virtual_map[old] \in Entries /\ was \in Groups
      /\ group_map \in [Groups -> SUBSET Vfds] /\ Groups \subseteq Int
  BY <1>1, BookAssumption DEF AgreeInv, IdInv, BookInv, TypeOK, Entries
<1>3. entry.conn = virtual_map[old].conn /\ entry.group = g
  BY <1>2 DEF Entries
<1>4. BookInv'
  BY RebindTyped DEF AgreeInv, IdInv
<1> HIDE DEF entry
<1>5. /\ DOMAIN virtual_map' = (DOMAIN virtual_map \ {old}) \union {new}
      /\ virtual_map'[new] = entry
      /\ \A v \in DOMAIN virtual_map \ {old} : v # new /\ virtual_map'[v] = virtual_map[v]
  BY <1>1 DEF Put, Drop, Restrict
<1>6. /\ DOMAIN sock_to_virtual' = DOMAIN sock_to_virtual
      /\ sock_to_virtual'[s] = new
      /\ \A r \in DOMAIN sock_to_virtual \ {s} :
           sock_to_virtual'[r] = sock_to_virtual[r] /\ sock_to_virtual[r] # old
  <2>1. \A r \in DOMAIN sock_to_virtual \ {s} : sock_to_virtual[r] # old
    BY <1>1, OwnersDiffer DEF AgreeInv
  <2>2. QED
    BY <2>1, <1>1 DEF Put
<1>8. OpenIsRouted'
  <2> SUFFICES ASSUME NEW d \in Conns, life[d] = "open"
               PROVE  /\ sock_to_virtual'[sock[d]] \in DOMAIN virtual_map'
                      /\ virtual_map'[sock_to_virtual'[sock[d]]].conn = d
    BY <1>1 DEF OpenIsRouted, Known
  <2>1. /\ sock[d] \in DOMAIN sock_to_virtual
        /\ sock_to_virtual[sock[d]] \in DOMAIN virtual_map
        /\ virtual_map[sock_to_virtual[sock[d]]].conn = d
    BY DEF AgreeInv, IdInv, BookInv, OpenAreRegistered, OpenIsRouted, Known
  <2>2. CASE sock[d] = s
    BY <2>1, <2>2, <1>3, <1>5, <1>6
  <2>3. CASE sock[d] # s
    BY <2>1, <2>3, <1>5, <1>6
  <2>4. QED
    BY <2>2, <2>3
<1>9. OnlyOpenIsRouted'
  BY <1>1, <1>5, <1>6 DEF OnlyOpenIsRouted, AgreeInv, IdInv
<1>10. \/ \A h \in Groups : group_map'[h] = (group_map[h] \ {old}) \union
                                            (IF h = g /\ g >= 0 THEN {new} ELSE {})
       \/ new = old /\ was = g /\ group_map' = group_map
  <2>1. \A h \in Groups : h # was => old \notin group_map[h]
    BY DEF AgreeInv, MembersSaySo
  <2>2. QED
    BY <2>1, <1>1, <1>2 DEF Moved, Erased
<1>11. MembersSaySo' /\ GroupsHoldThem'
  <2>1. CASE new = old /\ was = g /\ group_map' = group_map
    <3>1. DOMAIN virtual_map' = DOMAIN virtual_map
          /\ \A v \in DOMAIN virtual_map : virtual_map'[v].group = virtual_map[v].group
      BY <2>1, <1>1, <1>3, <1>5
    <3>2. QED
      BY <2>1, <3>1 DEF MembersSaySo, GroupsHoldThem, AgreeInv, Known
  <2>2. CASE \A h \in Groups : group_map'[h] = (group_map[h] \ {old}) \union
                                         (IF h = g /\ g >= 0 THEN {new} ELSE {})
    <3>1. MembersSaySo'
      <4> SUFFICES ASSUME NEW h \in Groups, NEW v \in group_map'[h]
                   PROVE  v \in DOMAIN virtual_map' /\ virtual_map'[v].group = h
        BY DEF MembersSaySo, Known
      <4>1. CASE v \in group_map[h] \ {old}
        BY <4>1, <1>5 DEF AgreeInv, MembersSaySo, Known
      <4>2. CASE v = new /\ h = g
        BY <4>2, <1>3, <1>5
      <4>3. QED
        BY <2>2, <4>1, <4>2
    <3>2. GroupsHoldThem'
      <4> SUFFICES ASSUME NEW h \in Groups, h >= 0,
                          NEW v \in DOMAIN virtual_map', virtual_map'[v].group = h
                   PROVE  v \in group_map'[h]
        BY DEF GroupsHoldThem
      <4>1. CASE v = new
        BY <4>1, <2>2, <1>3, <1>5
      <4>2. CASE v # new
        BY <4>2, <2>2, <1>5 DEF AgreeInv, GroupsHoldThem
      <4>3. QED
        BY <4>1, <4>2
    <3>3. QED
      BY <3>1, <3>2
  <2>3. QED
    BY <2>1, <2>2, <1>10
<1>12. QED
  BY <1>4, <1>8, <1>9, <1>11 DEF AgreeInv, IdInv

(* Changing only the groups of entries keeps every id with its connection. *)
LEMMA GroupChangeKeepsIds ==
  ASSUME IdInv, UNCHANGED <<life, sock, sock_to_virtual>>, BookInv',
         DOMAIN virtual_map' = DOMAIN virtual_map,
         \A v \in DOMAIN virtual_map : virtual_map'[v].conn = virtual_map[v].conn
  PROVE  IdInv'
<1>1. OnlyOpenIsRouted'
  BY DEF IdInv, OnlyOpenIsRouted
<1>2. OpenIsRouted'
  BY DEF IdInv, OpenIsRouted, Known
<1>3. QED
  BY <1>1, <1>2 DEF IdInv

(* set_group moves one entry between groups, in both directions.           *)
LEMMA SetGroupAgrees ==
  ASSUME AgreeInv, NEW vfd \in Vfds, NEW g \in Groups, SetGroup(vfd, g)
  PROVE  AgreeInv'
<1> DEFINE was == virtual_map[vfd].group
<1>1. /\ vfd \in DOMAIN virtual_map /\ was # g
      /\ virtual_map' = [virtual_map EXCEPT ![vfd].group = g]
      /\ group_map' = Moved(vfd, was, vfd, g)
      /\ UNCHANGED <<life, sock, sock_to_virtual>>
  BY DEF SetGroup, Known
<1>2. /\ virtual_map[vfd] \in Entries /\ was \in Groups
      /\ group_map \in [Groups -> SUBSET Vfds] /\ Groups \subseteq Int
  BY <1>1, BookAssumption DEF AgreeInv, IdInv, BookInv, TypeOK, Entries
<1>3. /\ DOMAIN virtual_map' = DOMAIN virtual_map
      /\ virtual_map'[vfd].group = g /\ virtual_map'[vfd].conn = virtual_map[vfd].conn
      /\ \A v \in DOMAIN virtual_map \ {vfd} : virtual_map'[v] = virtual_map[v]
  BY <1>1, <1>2 DEF Entries
<1>4. IdInv'
  BY <1>1, <1>3, SetGroupTyped, GroupChangeKeepsIds DEF AgreeInv, IdInv
<1>5. \A h \in Groups : group_map'[h] = (group_map[h] \ {vfd}) \union
                                        (IF h = g /\ g >= 0 THEN {vfd} ELSE {})
  <2>1. \A h \in Groups : h # was => vfd \notin group_map[h]
    BY DEF AgreeInv, MembersSaySo
  <2>2. QED
    BY <2>1, <1>1, <1>2 DEF Moved, Erased
<1>6. MembersSaySo'
  BY <1>1, <1>3, <1>5 DEF AgreeInv, MembersSaySo, Known
<1>7. GroupsHoldThem'
  BY <1>1, <1>3, <1>5 DEF AgreeInv, GroupsHoldThem
<1>8. QED
  BY <1>4, <1>6, <1>7 DEF AgreeInv

(* assign_group empties a group and refills it, in both directions.        *)
LEMMA AssignGroupAgrees ==
  ASSUME AgreeInv, NEW g \in Groups, NEW vfds \in SUBSET Vfds, AssignGroup(g, vfds)
  PROVE  AgreeInv'
<1> DEFINE joining == vfds \intersect DOMAIN virtual_map
           Left(v) == IF v \in group_map[g] /\ virtual_map[v].group = g
                      THEN [virtual_map[v] EXCEPT !.group = -1] ELSE virtual_map[v]
<1>1. /\ virtual_map' = [v \in DOMAIN virtual_map |->
                          IF v \in joining THEN [Left(v) EXCEPT !.group = g] ELSE Left(v)]
      /\ group_map' = [h \in Groups |->
            IF h = g THEN joining ELSE group_map[h] \ {v \in joining : Left(v).group = h}]
      /\ UNCHANGED <<life, sock, sock_to_virtual>>
  BY DEF AssignGroup
<1>2. \A v \in DOMAIN virtual_map : virtual_map[v] \in Entries
  BY DEF AgreeInv, IdInv, BookInv, TypeOK, Entries
<1>3. \A v \in DOMAIN virtual_map :
        /\ Left(v) \in [conn : Conns, group : Groups]
        /\ Left(v).conn = virtual_map[v].conn
        /\ Left(v).group = IF v \in group_map[g] /\ virtual_map[v].group = g
                           THEN -1 ELSE virtual_map[v].group
  BY <1>2, BookAssumption DEF Entries
<1> HIDE DEF Left
<1>4. /\ DOMAIN virtual_map' = DOMAIN virtual_map
      /\ \A v \in DOMAIN virtual_map :
           /\ virtual_map'[v].conn = virtual_map[v].conn
           /\ virtual_map'[v].group = IF v \in joining THEN g ELSE Left(v).group
  BY <1>1, <1>3
<1>5. IdInv'
  BY <1>1, <1>4, AssignGroupTyped, GroupChangeKeepsIds DEF AgreeInv, IdInv
<1>6. MembersSaySo'
  <2> SUFFICES ASSUME NEW h \in Groups, NEW v \in group_map'[h]
               PROVE  v \in DOMAIN virtual_map' /\ virtual_map'[v].group = h
    BY DEF MembersSaySo, Known
  <2>1. CASE h = g
    BY <2>1, <1>1, <1>4
  <2>2. CASE h # g
    <3>1. v \in group_map[h] /\ ~(v \in joining /\ Left(v).group = h)
      BY <2>2, <1>1
    <3>2. v \in DOMAIN virtual_map /\ virtual_map[v].group = h
      BY <3>1 DEF AgreeInv, MembersSaySo, Known
    <3>3. Left(v).group = h
      BY <3>2, <2>2, <1>3
    <3>4. QED
      BY <3>1, <3>2, <3>3, <1>4
  <2>3. QED
    BY <2>1, <2>2
<1>7. GroupsHoldThem'
  <2> SUFFICES ASSUME NEW h \in Groups, h >= 0,
                      NEW v \in DOMAIN virtual_map, virtual_map'[v].group = h
               PROVE  v \in group_map'[h]
    BY <1>4 DEF GroupsHoldThem
  <2>1. CASE v \in joining
    BY <2>1, <1>1, <1>4
  <2>2. CASE v \notin joining
    <3>1. Left(v).group = h
      BY <2>2, <1>4
    <3>2. virtual_map[v].group = h /\ ~(v \in group_map[g] /\ h = g)
      BY <3>1, <1>3
    <3>3. v \in group_map[h] /\ h # g
      BY <3>2 DEF AgreeInv, GroupsHoldThem
    <3>4. QED
      BY <2>2, <3>3, <1>1
  <2>3. QED
    BY <2>1, <2>2
<1>8. QED
  BY <1>5, <1>6, <1>7 DEF AgreeInv

(* Every step keeps the three maps in agreement, but a take-over.          *)
LEMMA StepAgrees ==
  ASSUME AgreeInv, [Next]_vars, ~overwritten'
  PROVE  AgreeInv'
<1>1. CASE \E c \in Conns : OnConnection(c) \/ DisConnection(c)
  BY <1>1, OnConnectionAgrees, DisConnectionAgrees
<1>2. CASE \E c \in Conns, new \in Ids, g \in Groups : Rebind(c, new, g)
  BY <1>2, RebindAgrees
<1>3. CASE \E vfd \in Vfds, g \in Groups : SetGroup(vfd, g)
  BY <1>3, SetGroupAgrees
<1>4. CASE \E g \in Groups, vfds \in SUBSET Vfds : AssignGroup(g, vfds)
  BY <1>4, AssignGroupAgrees
<1>5. CASE UNCHANGED <<life, sock, virtual_map, sock_to_virtual, group_map>>
  <2>1. BookInv'
    BY StepIsTyped DEF AgreeInv, IdInv
  <2>2. IdInv'
    BY <1>5, <2>1, GroupChangeKeepsIds DEF AgreeInv
  <2>3. QED
    BY <1>5, <2>2 DEF AgreeInv, MembersSaySo, GroupsHoldThem, Known
<1>6. QED
  BY <1>1, <1>2, <1>3, <1>4, <1>5
  DEF Next, TakeChanges, WaitEnds, WaitVersionChange, ShutdownFlag, ShutdownNotify, vars, mapVars

(* The empty maps agree.                                                   *)
LEMMA InitAgrees == Init => AgreeInv
<1> SUFFICES ASSUME Init PROVE AgreeInv
  OBVIOUS
<1>1. DOMAIN virtual_map = {} /\ DOMAIN sock_to_virtual = {}
  BY DEF Init
<1>2. OpenIsRouted /\ OnlyOpenIsRouted
  BY <1>1 DEF Init, OpenIsRouted, OnlyOpenIsRouted
<1>3. MembersSaySo /\ GroupsHoldThem
  BY <1>1 DEF Init, MembersSaySo, GroupsHoldThem
<1>4. QED
  BY <1>2, <1>3, InitIsTyped DEF AgreeInv, IdInv

(* connection_info finds a connection exactly while it is open: the entry  *)
(* under a reused socket number is the new owner's.                        *)
LEMMA FoundIsOpen ==
  ASSUME AgreeInv, NEW c \in Conns
  PROVE  connection_info(c) <=> life[c] = "open"
<1>1. ASSUME life[c] = "open" PROVE connection_info(c)
  BY <1>1 DEF AgreeInv, IdInv, BookInv, OpenAreRegistered, OpenIsRouted, connection_info,
              Registered
<1>2. ASSUME connection_info(c) PROVE life[c] = "open"
  <2>1. sock[c] \in DOMAIN sock_to_virtual /\ virtual_map[sock_to_virtual[sock[c]]].conn = c
    BY <1>2 DEF connection_info, Registered
  <2>2. PICK d \in Conns : life[d] = "open" /\ sock[d] = sock[c]
    BY <2>1 DEF AgreeInv, IdInv, BookInv, OpenAreRegistered
  <2>3. QED
    BY <2>1, <2>2 DEF AgreeInv, IdInv, OpenIsRouted
<1>3. QED
  BY <1>1, <1>2

(* What group_snapshot gives send_group to write to is open.               *)
LEMMA SnapshotIsOpen ==
  ASSUME AgreeInv, NEW g \in Groups, NEW c \in group_snapshot(g)
  PROVE  life[c] = "open"
<1>1. PICK v \in DOMAIN virtual_map : virtual_map[v].conn = c
  BY DEF group_snapshot
<1>2. PICK s \in DOMAIN sock_to_virtual : sock_to_virtual[s] = v
  BY DEF AgreeInv, IdInv, OnlyOpenIsRouted
<1>3. PICK d \in Conns : life[d] = "open" /\ sock[d] = s
  BY DEF AgreeInv, IdInv, BookInv, OpenAreRegistered
<1>4. QED
  BY <1>1, <1>2, <1>3 DEF AgreeInv, IdInv, OpenIsRouted

(* Nothing but the take-over itself sets its mark, and nothing resets it.  *)
LEMMA StepUntilTakeOver ==
  BookInv /\ (~overwritten => AgreeInv) /\ [Next]_vars => (~overwritten => AgreeInv)'
<1> SUFFICES ASSUME BookInv, ~overwritten => AgreeInv, [Next]_vars, ~overwritten'
             PROVE  AgreeInv'
  OBVIOUS
<1>1. overwritten \in BOOLEAN
  BY DEF BookInv, TypeOK
<1>2. ~overwritten
  BY <1>1 DEF Next, OnConnection, DisConnection, Rebind, SetGroup, AssignGroup, TakeChanges,
              WaitEnds, WaitVersionChange, ShutdownFlag, ShutdownNotify, mapVars, vars
<1>3. QED
  BY <1>2, StepAgrees

(* The socket numbers registered are those of the open connections; and    *)
(* until a new connection takes over a bound id, an open connection has    *)
(* one virtual fd, it routes to it, and nothing else is routed to:         *)
(* dis_connection takes out what rebind put under another key, however     *)
(* often the connection was bound.                                         *)
THEOREM OneIdEach == Spec => []EachConnectionHasOneId
<1>1. BookInv /\ (~overwritten => AgreeInv) => EachConnectionHasOneId
  <2>1. AgreeInv => /\ \A c \in Conns : life[c] = "open" =>
                         LET vfd == sock_to_virtual[sock[c]]
                         IN  Known(vfd) /\ virtual_map[vfd].conn = c
                    /\ DOMAIN virtual_map = {sock_to_virtual[s] : s \in DOMAIN sock_to_virtual}
                    /\ \A c \in Conns : connection_info(c) <=> life[c] = "open"
    BY FoundIsOpen DEF AgreeInv, IdInv, OpenIsRouted, OnlyOpenIsRouted
  <2>2. QED
    BY <2>1 DEF BookInv, OpenAreRegistered, EachConnectionHasOneId
<1>2. QED
  BY InitAgrees, InitIsTyped, StepIsTyped, StepUntilTakeOver, <1>1, PTL DEF Spec

(* group_map_ and the group of every entry do not disagree before such a   *)
(* take-over, whatever rebind, set_group, assign_group and closes do to    *)
(* the same ids.                                                           *)
THEOREM GroupsStayInAgreement == Spec => []GroupsAgree
<1>1. (~overwritten => AgreeInv) => GroupsAgree
  BY SnapshotIsOpen DEF AgreeInv, MembersSaySo, GroupsHoldThem, GroupsAgree
<1>2. QED
  BY InitAgrees, InitIsTyped, StepIsTyped, StepUntilTakeOver, <1>1, PTL DEF Spec

---------------------------------------------------------------------------
(* Every change tells everybody who is asleep at that moment, so whoever   *)
(* has not been told has seen the latest version; shutdown, which does not *)
(* change the version, tells them too, after nobody can fall asleep again. *)
THEOREM NobodySleepsThrough == Spec => []WaitersAreTold
<1>1. Init => WaitersAreTold
  BY DEF Init, WaitersAreTold, Asleep
<1>2. BookInv /\ WaitersAreTold /\ [Next]_vars => WaitersAreTold'
  <2> SUFFICES ASSUME BookInv, WaitersAreTold, [Next]_vars PROVE WaitersAreTold'
    OBVIOUS
  <2>1. ASSUME NEW cmd, NEW vfd, NEW g, NotifyChange(cmd, vfd, g), waiting' = waiting
        PROVE  WaitersAreTold'
    BY <2>1 DEF NotifyChange, WaitersAreTold, Asleep
  <2>2. ASSUME UNCHANGED <<version, waiting, told, stopped>> PROVE WaitersAreTold'
    BY <2>2 DEF WaitersAreTold, Asleep
  <2>3. ASSUME NEW r \in Readers, NEW old, WaitVersionChange(r, old) PROVE WaitersAreTold'
    BY <2>3 DEF WaitVersionChange, WaitersAreTold, Asleep, BookInv, TypeOK
  <2>4. ASSUME NEW r \in Readers, WaitEnds(r) PROVE WaitersAreTold'
    BY <2>4 DEF WaitEnds, WaitersAreTold, Asleep, BookInv, TypeOK
  <2>5. CASE ShutdownFlag \/ ShutdownNotify
    BY <2>5 DEF ShutdownFlag, ShutdownNotify, WaitersAreTold, Asleep
  <2>6. QED
    BY <2>1, <2>2, <2>3, <2>4, <2>5
    DEF Next, OnConnection, DisConnection, Rebind, SetGroup, AssignGroup, TakeChanges, waitVars,
        vars
<1>3. QED
  BY InitIsTyped, StepIsTyped, <1>1, <1>2, PTL DEF Spec
=============================================================================
