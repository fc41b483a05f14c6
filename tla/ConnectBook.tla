---------------------------- MODULE ConnectBook ----------------------------
(***************************************************************************)
(* connect_book.cpp: the registry of connections.  Every operation is one  *)
(* critical section of mutex_.  A connection is known by its socket number *)
(* (sock_to_virtual_), routed to by a virtual fd (virtual_map_), and may   *)
(* be in one group (group_map_).                                           *)
(*                                                                         *)
(* The environment: the kernel gives a new connection any socket number no *)
(* open connection has, so numbers are reused; Internalconnection::sock is *)
(* never cleared, and a business task may still hold a connection after    *)
(* the Reactor has closed it.  Readers wait for the version to change      *)
(* (wait_version_change, through ConnectionSession) and take the changes.  *)
(***************************************************************************)
EXTENDS Integers, Sequences, SequencesExt, Functions

CONSTANTS Conns,       \* connection objects
          Socks,       \* socket numbers
          Ids,         \* virtual fds that business tasks bind
          Groups,      \* groups that business tasks name
          Readers,     \* threads that wait for a change
          MaxChanges,  \* MAX_CHANGES
          MaxVersion   \* bound: changes explored

ASSUME BookAssumption ==
  /\ Socks \subseteq Nat /\ Ids \subseteq Nat
  /\ Groups \subseteq Int /\ -1 \in Groups
  /\ MaxChanges \in Nat \ {0} /\ MaxVersion \in Nat

\* A new connection's virtual fd is its socket number.
Vfds == Socks \union Ids

VARIABLES
  life,            \* of a connection: "new", "open", "closed"
  sock,            \* Internalconnection::sock
  virtual_map,     \* virtual_map_
  sock_to_virtual, \* sock_to_virtual_
  group_map,       \* group_map_; an absent group has no members
  version,         \* version_
  changes,         \* changes_
  waiting,         \* old_version of a reader asleep on cv_, -1 of one that is not
  told,            \* readers asleep and notified
  stopped,         \* stopped_: "no"; "flag", cv_ not notified yet; "yes"
  overwritten      \* history: a new connection's entry replaced a bound one

mapVars  == <<virtual_map, sock_to_virtual, group_map, overwritten>>
waitVars == <<waiting, told, stopped>>
vars == <<life, sock, mapVars, version, changes, waitVars>>

Init ==
  /\ life = [c \in Conns |-> "new"]
  /\ sock \in [Conns -> Socks]
  /\ virtual_map = << >> /\ sock_to_virtual = << >>
  /\ group_map = [g \in Groups |-> {}]
  /\ version = 0 /\ changes = << >>
  /\ waiting = [r \in Readers |-> -1] /\ told = {} /\ stopped = "no"
  /\ overwritten = FALSE

Asleep == {r \in Readers : waiting[r] >= 0}

---------------------------------------------------------------------------
Known(vfd)   == vfd \in DOMAIN virtual_map
Registered(c) == sock[c] \in DOMAIN sock_to_virtual
Put(f, k, v) == [x \in DOMAIN f \union {k} |-> IF x = k THEN v ELSE f[x]]
Drop(f, k)   == Restrict(f, DOMAIN f \ {k})

\* Slip: beyond MAX_CHANGES the new change is dropped instead of the oldest.
NotifyChange_DropsNew(cmd, vfd, g) ==
  /\ version < MaxVersion
  /\ version' = version + 1
  /\ changes' = IF Len(changes) = MaxChanges THEN changes
                ELSE Append(changes, [cmd |-> cmd, virtual_fd |-> vfd, group_name |-> g,
                                      version |-> version + 1])
  /\ told' = Asleep

(* notify_change, with the oldest change dropped beyond MAX_CHANGES and    *)
(* every reader notified.                                                  *)
NotifyChange(cmd, vfd, g) ==
  LET all == Append(changes, [cmd |-> cmd, virtual_fd |-> vfd, group_name |-> g,
                              version |-> version + 1])
  IN  /\ version < MaxVersion
      /\ version' = version + 1
      /\ changes' = IF Len(all) > MaxChanges THEN Tail(all) ELSE all
      /\ told' = Asleep

\* erase_from_group_locked, then the insertion that follows it for g >= 0.
Erased(vfd, old) == [group_map EXCEPT ![old] = @ \ {vfd}]
Moved(vfd, old, new, g) ==
  [Erased(vfd, old) EXCEPT ![g] = IF g >= 0 THEN @ \union {new} ELSE @]

---------------------------------------------------------------------------
(* A connection is accepted with a free socket number and registered,      *)
(* before its Reactor can see an event of it; a number that is still       *)
(* registered would be refused, but an id that a business has bound to     *)
(* another connection and that equals the number is taken over.            *)
OnConnection(c) ==
  /\ life[c] = "new"
  /\ \A d \in Conns : life[d] = "open" => sock[d] # sock[c]
  /\ life' = [life EXCEPT ![c] = "open"]
  /\ ~Registered(c)
  /\ virtual_map' = Put(virtual_map, sock[c], [conn |-> c, group |-> -1])
  /\ sock_to_virtual' = Put(sock_to_virtual, sock[c], sock[c])
  /\ overwritten' = (overwritten \/ Known(sock[c]))
  /\ NotifyChange("add", sock[c], -1)
  /\ UNCHANGED <<sock, group_map, waiting, stopped>>

(* close_client: unregister by socket number, then close the socket.       *)
\* Slip: virtual_map_ is looked up by the socket number.
DisConnection_BySock(c) ==
  /\ life[c] = "open"
  /\ life' = [life EXCEPT ![c] = "closed"]
  /\ IF Known(sock[c])
     THEN /\ group_map' = Erased(sock[c], virtual_map[sock[c]].group)
          /\ virtual_map' = Drop(virtual_map, sock[c])
     ELSE UNCHANGED <<group_map, virtual_map>>
  /\ sock_to_virtual' = Drop(sock_to_virtual, sock[c])
  /\ NotifyChange("remove", sock[c], -1)
  /\ UNCHANGED <<sock, waiting, stopped, overwritten>>

DisConnection(c) ==
  /\ life[c] = "open"
  /\ life' = [life EXCEPT ![c] = "closed"]
  /\ LET vfd == sock_to_virtual[sock[c]]
     IN  /\ IF Known(vfd)
            THEN /\ group_map' = Erased(vfd, virtual_map[vfd].group)
                 /\ virtual_map' = Drop(virtual_map, vfd)
            ELSE UNCHANGED <<group_map, virtual_map>>
         /\ sock_to_virtual' = Drop(sock_to_virtual, sock[c])
         /\ NotifyChange("remove", vfd, -1)
  /\ UNCHANGED <<sock, waiting, stopped, overwritten>>

(* rebind, through bind, by a business task of connection c.               *)
Rebind(c, new, g) ==
  /\ life[c] # "new"
  /\ Registered(c)
  /\ LET old == sock_to_virtual[sock[c]]
     IN  /\ Known(old)
         /\ new # old => ~Known(new)
         /\ virtual_map' = Put(Drop(virtual_map, old), new,
                               [virtual_map[old] EXCEPT !.group = g])
         /\ group_map' = IF new = old /\ virtual_map[old].group = g THEN group_map
                         ELSE Moved(old, virtual_map[old].group, new, g)
  /\ sock_to_virtual' = Put(sock_to_virtual, sock[c], new)
  /\ NotifyChange("rebind", new, g)
  /\ UNCHANGED <<life, sock, waiting, stopped, overwritten>>

(* set_group; naming the group it is in already changes nothing.           *)
SetGroup(vfd, g) ==
  /\ Known(vfd)
  /\ virtual_map[vfd].group # g
  /\ virtual_map' = [virtual_map EXCEPT ![vfd].group = g]
  /\ group_map' = Moved(vfd, virtual_map[vfd].group, vfd, g)
  /\ NotifyChange("set_group", vfd, g)
  /\ UNCHANGED <<life, sock, sock_to_virtual, waiting, stopped, overwritten>>

(* assign_group: the members of g leave it, the known ones of vfds join.   *)
\* Slip: virtual fds that nobody has are not skipped.
AssignGroup_KeepsUnknown(g, vfds) ==
  /\ virtual_map' = [v \in DOMAIN virtual_map |->
       IF v \in vfds THEN [virtual_map[v] EXCEPT !.group = g] ELSE virtual_map[v]]
  /\ group_map' = [group_map EXCEPT ![g] = vfds]
  /\ NotifyChange("divide_gp", 0, g)
  /\ UNCHANGED <<life, sock, sock_to_virtual, waiting, stopped, overwritten>>

AssignGroup(g, vfds) ==
  LET joining == vfds \intersect DOMAIN virtual_map
      left == [v \in DOMAIN virtual_map |->
                 IF v \in group_map[g] /\ virtual_map[v].group = g
                 THEN [virtual_map[v] EXCEPT !.group = -1] ELSE virtual_map[v]]
  IN  /\ virtual_map' = [v \in DOMAIN virtual_map |->
           IF v \in joining THEN [left[v] EXCEPT !.group = g] ELSE left[v]]
      /\ group_map' = [h \in Groups |->
           IF h = g THEN joining ELSE group_map[h] \ {v \in joining : left[v].group = h}]
      /\ NotifyChange("divide_gp", 0, g)
      /\ UNCHANGED <<life, sock, sock_to_virtual, waiting, stopped, overwritten>>

(* take_changes                                                            *)
TakeChanges ==
  /\ changes # << >>
  /\ changes' = << >>
  /\ UNCHANGED <<life, sock, mapVars, version, waitVars>>

---------------------------------------------------------------------------
(* wait_version_change(old), old being a version seen before: it returns   *)
(* at once, or sleeps on cv_ ...                                           *)
\* Slip: the version is not compared before sleeping.
WaitVersionChange_Blindly(r, old) ==
  /\ waiting[r] = -1
  /\ stopped = "no"
  /\ waiting' = [waiting EXCEPT ![r] = old]
  /\ UNCHANGED <<life, sock, mapVars, version, changes, told, stopped>>

WaitVersionChange(r, old) ==
  /\ waiting[r] = -1
  /\ stopped = "no" /\ version = old
  /\ waiting' = [waiting EXCEPT ![r] = old]
  /\ UNCHANGED <<life, sock, mapVars, version, changes, told, stopped>>

\* ... until it is notified and finds a reason, or times out.
WaitEnds(r) ==
  /\ waiting[r] >= 0
  /\ waiting' = [waiting EXCEPT ![r] = -1]
  /\ told' = told \ {r}
  /\ UNCHANGED <<life, sock, mapVars, version, changes, stopped>>

(* shutdown: stopped_ under the mutex, notify_all outside it.              *)
ShutdownFlag ==
  /\ stopped = "no" /\ stopped' = "flag"
  /\ UNCHANGED <<life, sock, mapVars, version, changes, waiting, told>>

ShutdownNotify ==
  /\ stopped = "flag" /\ stopped' = "yes"
  /\ told' = Asleep
  /\ UNCHANGED <<life, sock, mapVars, version, changes, waiting>>

Next ==
  \/ \E c \in Conns : OnConnection(c) \/ DisConnection(c)
  \/ \E c \in Conns, new \in Ids, g \in Groups : Rebind(c, new, g)
  \/ \E vfd \in Vfds, g \in Groups : SetGroup(vfd, g)
  \/ \E g \in Groups, vfds \in SUBSET Vfds : AssignGroup(g, vfds)
  \/ TakeChanges
  \/ \E r \in Readers : WaitEnds(r) \/ \E old \in 0 .. version : WaitVersionChange(r, old)
  \/ ShutdownFlag \/ ShutdownNotify

Spec == Init /\ [][Next]_vars

---------------------------------------------------------------------------
Changes == [cmd : {"add", "remove", "rebind", "set_group", "divide_gp"},
            virtual_fd : Vfds \union {0}, group_name : Groups, version : Nat]

(* Type invariant.                                                         *)
TypeOK ==
  /\ life \in [Conns -> {"new", "open", "closed"}]
  /\ sock \in [Conns -> Socks]
  /\ DOMAIN virtual_map \subseteq Vfds
  /\ \A v \in DOMAIN virtual_map : virtual_map[v] \in [conn : Conns, group : Groups]
  /\ DOMAIN sock_to_virtual \subseteq Socks
  /\ \A s \in DOMAIN sock_to_virtual : sock_to_virtual[s] \in Vfds
  /\ group_map \in [Groups -> SUBSET Vfds]
  /\ version \in Nat /\ changes \in Seq(Changes)
  /\ waiting \in [Readers -> Nat \union {-1}] /\ told \subseteq Readers
  /\ stopped \in {"no", "flag", "yes"} /\ overwritten \in BOOLEAN

\* connection_info finds the connection, which is not another one's entry.
connection_info(c) ==
  Registered(c) /\ Known(sock_to_virtual[sock[c]])
                /\ virtual_map[sock_to_virtual[sock[c]]].conn = c

\* The connections send_group writes to.
group_snapshot(g) == {virtual_map[v].conn : v \in group_map[g] \intersect DOMAIN virtual_map}

(* The socket numbers registered are always those of the open connections. *)
(* Until a new connection has taken over an id that was bound to another   *)
(* (connect_book.cpp:38), every open connection has exactly one virtual    *)
(* fd, which routes to it, and nothing else is routed to: a closed         *)
(* connection leaves nothing behind for the next owner of its socket       *)
(* number, nor does a task that still holds it find itself in that one's   *)
(* entry.                                                                  *)
EachConnectionHasOneId ==
  /\ DOMAIN sock_to_virtual = {sock[c] : c \in {d \in Conns : life[d] = "open"}}
  /\ ~overwritten =>
       /\ \A c \in Conns : life[c] = "open" =>
            LET vfd == sock_to_virtual[sock[c]]
            IN  Known(vfd) /\ virtual_map[vfd].conn = c
       /\ DOMAIN virtual_map = {sock_to_virtual[s] : s \in DOMAIN sock_to_virtual}
       /\ \A c \in Conns : connection_info(c) <=> life[c] = "open"

(* The two directions of group membership agree until such a take-over,    *)
(* which resets the entry's group and leaves group_map_ alone: group g,    *)
(* g >= 0, is exactly the set of entries that say so, and no group holds a *)
(* virtual fd of another group or of nobody; a message to a group goes to  *)
(* open connections.                                                       *)
GroupsAgree ==
  ~overwritten => \A g \in Groups :
    /\ \A v \in group_map[g] : Known(v) /\ virtual_map[v].group = g
    /\ g >= 0 => \A v \in DOMAIN virtual_map :
                   virtual_map[v].group = g => v \in group_map[g]
    /\ \A c \in group_snapshot(g) : life[c] = "open"

(* What take_changes returns is the latest changes without a gap, so a     *)
(* session can tell from the first one whether it has missed any.          *)
ChangesAreLatest ==
  /\ Len(changes) <= MaxChanges
  /\ \A i \in DOMAIN changes : changes[i].version = version - Len(changes) + i

(* No reader sleeps through a change or the shutdown: as long as it was    *)
(* not notified, the version is still the one it has seen, and shutdown    *)
(* has yet to notify.                                                      *)
WaitersAreTold ==
  \A r \in Asleep \ told : waiting[r] = version /\ stopped # "yes"
=============================================================================
