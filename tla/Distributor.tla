---------------------------- MODULE Distributor ----------------------------
(***************************************************************************)
(* controller/distributor.py, distribute_plan(): how a test plan becomes   *)
(* one plan per node, and controller/user_pool.py, assign_users(): the     *)
(* user name and role of every address.  One action is one iteration of a  *)
(* loop.  The ranges of the nodes and the plan are chosen in Init; the     *)
(* caller has made sure that there is a node.                              *)
(*                                                                         *)
(* An address is <<node, index>>: the ranges of two nodes do not overlap.  *)
(***************************************************************************)
EXTENDS Integers, FiniteSets, SequencesExt

CONSTANTS
    Pool,             \* USER_POOL: for each user name its fixed role, or None
    Roles,            \* the plan's aruba_roles
    None,
    Ranges,           \* bound: the lengths of the nodes' address ranges
    MaxUsers,         \* bound: web users, YouTube users
    MaxSessions       \* bound: calls and shares of each type

ASSUME DistributorAssumption ==
    /\ Pool \in Seq(STRING \cup {None}) /\ Pool # <<>>
    /\ Roles \in Seq(STRING) /\ Roles # <<>>
    /\ Ranges \subseteq Seq(Nat) \ {<<>>}
    /\ MaxUsers \in Nat /\ MaxSessions \in Nat

VARIABLES
    ranges,           \* node -> length of its address range
    plan,             \* the numbers of the test plan
    phase,            \* "split", "udp", "users", "done" or "error"
    users,            \* kind -> node -> web_users and youtube_users of its plan
    cursor,           \* slot_cursor
    added,            \* type -> sessions added so far
    udp,              \* node -> udp_sessions of its plan, as a set
    assigned,         \* all_users so far: name and role, in the order of addresses
    rotate,           \* rotate_counter
    radius            \* node -> radius_users of its plan: address -> name and role

inputs == <<ranges, plan>>
vars == <<ranges, plan, phase, users, cursor, added, udp, assigned, rotate, radius>>

Node == 1 .. Len(ranges)
Kind == {"web", "youtube"}
Type == {"voice", "video", "screenshare"}
Addresses(n) == {<<n, i>> : i \in 1 .. ranges[n]}
AllAddresses == UNION {Addresses(n) : n \in Node}

Plan == [Kind -> 0 .. MaxUsers] \X [Type -> 0 .. MaxSessions] \X BOOLEAN
Wanted(kind) == plan[1][kind]
Sessions(type) == plan[2][type]
RadiusEnabled == plan[3]

Init ==
    /\ ranges \in Ranges
    /\ plan \in Plan
    /\ phase = "split"
    /\ users = [kind \in Kind |-> [n \in Node |-> 0]]
    /\ cursor = 0
    /\ added = [type \in Type |-> 0]
    /\ udp = [n \in Node |-> {}]
    /\ assigned = <<>> /\ rotate = 0
    /\ radius = [n \in Node |-> <<>>]

-----------------------------------------------------------------------------
(* Web and YouTube users *)

ShareOf(total, n) ==
    total \div Len(ranges) + (IF n - 1 < total % Len(ranges) THEN 1 ELSE 0)

SplitUsers ==
    /\ phase = "split"
    /\ users' = [kind \in Kind |-> [n \in Node |-> ShareOf(Wanted(kind), n)]]
    /\ phase' = "udp"
    /\ UNCHANGED <<inputs, cursor, added, udp, assigned, rotate, radius>>

-----------------------------------------------------------------------------
(* Calls and screen shares *)

\* Mutant: all addresses of the first node, then all of the second, ...
SlotsInNodeOrder ==
    FlattenSeq([n \in Node |-> [i \in 1 .. ranges[n] |-> <<n, i>>]])

\* all_slots: the first address of every node that has one, then the second ...
Row(i) == FlattenSeq([n \in Node |-> IF i <= ranges[n] THEN << <<n, i>> >> ELSE <<>>])
Slots == FlattenSeq([i \in 1 .. Max(ToSet(ranges)) |-> Row(i)])

\* The i-th call of next_slot() from now on.
NextSlot(i) == Slots[((cursor + i - 1) % Len(Slots)) + 1]

\* Who is on the other side: one address of a call, up to four of a share.
Receivers(type) ==
    IF type = "screenshare" /\ Len(Slots) > 2
      THEN IF Len(Slots) - 1 < 4 THEN Len(Slots) - 1 ELSE 4
      ELSE 1

Entry(type, role, local, peers) ==
    [id |-> <<type, added[type]>>, role |-> role, local |-> local, peers |-> peers]

\* Mutant: the receiver expects the traffic from its own address.
EntriesToSelf(type, sender, receivers) ==
    {Entry(type, "initiator", sender, receivers)}
        \cup {Entry(type, "responder", r, {r}) : r \in receivers}

\* _add_udp_session, and the two kinds of entries of a screen share.
Entries(type, sender, receivers) ==
    {Entry(type, "initiator", sender, receivers)}
        \cup {Entry(type, "responder", r, {sender}) : r \in receivers}

\* The three loops come one after the other.
Turn(type) ==
    /\ type = "video" => added["voice"] = Sessions("voice")
    /\ type = "screenshare" => \A t \in Type \ {type} : added[t] = Sessions(t)

\* Mutant: the next session starts with the receiver of this one.
AdvanceLess(type) == cursor' = cursor + Receivers(type)

\* Mutant: the viewers of a share are picked without moving on.
AdvanceOne(type) == cursor' = cursor + (IF type = "screenshare" THEN 1 ELSE 2)

Advance(type) == cursor' = cursor + 1 + Receivers(type)

AddSession(type) ==
    /\ phase = "udp" /\ Turn(type) /\ added[type] < Sessions(type)
    /\ Slots # <<>>
    /\ LET new == Entries(type, NextSlot(1),
                          {NextSlot(1 + i) : i \in 1 .. Receivers(type)})
       IN udp' = [n \in Node |-> udp[n] \cup {e \in new : e.local[1] = n}]
    /\ Advance(type)
    /\ added' = [added EXCEPT ![type] = @ + 1]
    /\ UNCHANGED <<inputs, phase, users, assigned, rotate, radius>>

\* next_slot raises PlanError: nobody gets a plan.
Refuse ==
    /\ phase = "udp" /\ Slots = <<>> /\ \E type \in Type : Sessions(type) > 0
    /\ phase' = "error"
    /\ UNCHANGED <<inputs, users, cursor, added, udp, assigned, rotate, radius>>

AllAdded ==
    /\ phase = "udp" /\ added = [type \in Type |-> Sessions(type)]
    /\ phase' = IF RadiusEnabled THEN "users" ELSE "done"
    /\ UNCHANGED <<inputs, users, cursor, added, udp, assigned, rotate, radius>>

-----------------------------------------------------------------------------
(* RADIUS users *)

AllIps == FlattenSeq([n \in Node |-> [i \in 1 .. ranges[n] |-> <<n, i>>]])

\* Mutant: the roles rotate over all users, those of a fixed role included.
RoleByIndex(name) ==
    IF Pool[name] # None THEN Pool[name] ELSE Roles[(Len(assigned) % Len(Roles)) + 1]

RoleOf(name) ==
    IF Pool[name] # None THEN Pool[name] ELSE Roles[(rotate % Len(Roles)) + 1]

\* An iteration of assign_users(); a user name is its position in the pool.
AssignUser ==
    /\ phase = "users" /\ Len(assigned) < Len(AllIps)
    /\ LET name == (Len(assigned) % Len(Pool)) + 1
       IN /\ assigned' = Append(assigned, [ip   |-> AllIps[Len(assigned) + 1],
                                           name |-> name, role |-> RoleOf(name)])
          /\ rotate' = IF Pool[name] = None THEN rotate + 1 ELSE rotate
    /\ UNCHANGED <<inputs, phase, users, cursor, added, udp, radius>>

Offset(n) == Len(FlattenSeq([m \in 1 .. n - 1 |-> [i \in 1 .. ranges[m] |-> m]]))

\* Mutant: every node gets the users from the start of the list.
SliceFromStart(n) == SubSeq(assigned, 1, ranges[n])

Slice(n) == SubSeq(assigned, Offset(n) + 1, Offset(n) + ranges[n])

SliceUsers ==
    /\ phase = "users" /\ Len(assigned) = Len(AllIps)
    /\ radius' = [n \in Node |-> Slice(n)]
    /\ phase' = "done"
    /\ UNCHANGED <<inputs, users, cursor, added, udp, assigned, rotate>>

-----------------------------------------------------------------------------

Next ==
    \/ SplitUsers
    \/ \E type \in Type : AddSession(type)
    \/ Refuse
    \/ AllAdded
    \/ AssignUser
    \/ SliceUsers

Spec == Init /\ [][Next]_vars

-----------------------------------------------------------------------------
(* Properties *)

\* The UDP sessions the nodes run: an agent starts one per peer of an entry.
EndsOf(n, e) == {[id |-> e.id, node |-> n, local |-> e.local, peer |-> p] : p \in e.peers}

Ends(role) ==
    UNION {UNION {EndsOf(n, e) : e \in {f \in udp[n] : f.role = role}} : n \in Node}

\* Both ends of every session exist, on the nodes that own the addresses, and
\* name each other; nobody calls itself where there is somebody else to call.
EndsMatch ==
    /\ \A role \in {"initiator", "responder"} : \A e \in Ends(role) :
         e.local \in Addresses(e.node)
         /\ (Len(Slots) > 1 => e.local # e.peer)
    /\ {<<e.id, e.local, e.peer>> : e \in Ends("initiator")} =
         {<<e.id, e.peer, e.local>> : e \in Ends("responder")}

\* A responder binds the one port of its stream type: as long as a type needs no
\* more addresses than there are, no address is a responder of that type twice,
\* wherever in the list of slots its sessions start.
NoBusyPort ==
    \A type \in Type : Sessions(type) * (1 + Receivers(type)) <= Len(Slots) =>
        \A e, f \in Ends("responder") :
            e.id[1] = type /\ f.id[1] = type /\ e.local = f.local => e = f

\* distributor.py:134-138, consecutive picks land on different nodes: among
\* ranges of the same length, no call stays within a node.
CallsCrossNodes ==
    Len(ranges) > 1 /\ (\A m, n \in Node : ranges[m] = ranges[n]) =>
        \A e \in Ends("initiator") : e.id[1] # "screenshare" => e.local[1] # e.peer[1]

\* How many calls and shares an address takes part in, and how many UDP sessions
\* the agent runs there: one per peer of an entry.
Parts(a) == Cardinality({e \in udp[a[1]] : e.local = a})
Load(a) ==
    Cardinality(UNION {{<<e, p>> : p \in e.peers} : e \in {f \in udp[a[1]] : f.local = a}})

\* The work of a plan is spread: no address has two parts more than another in the
\* calls and shares, whatever their mix, and so it runs no two UDP sessions more as
\* long as there are only calls (the presenter of a share runs one per viewer, and
\* nothing makes up for that); and every web and YouTube user of the plan is given
\* to a node, none of which gets two more than another.
EvenLoad ==
    /\ \A a, b \in AllAddresses :
         /\ Parts(a) <= Parts(b) + 1
         /\ added["screenshare"] = 0 => Load(a) <= Load(b) + 1
    /\ phase \notin {"split", "error"} => \A kind \in Kind :
         /\ FoldFunction(+, 0, users[kind]) = Wanted(kind)
         /\ \A m, n \in Node : users[kind][m] <= users[kind][n] + 1

UserOf(a) == CHOOSE u \in ToSet(radius[a[1]]) : u.ip = a

\* A node logs on a user for each of its addresses and for no other, and (see
\* distributor.py:221-234) the ends of a session are different users, as long as
\* the pool has a name for every address.
UsersFitNodes ==
    phase = "done" /\ RadiusEnabled =>
        /\ \A n \in Node : /\ {u.ip : u \in ToSet(radius[n])} = Addresses(n)
                           /\ Len(radius[n]) = ranges[n]
        /\ Len(AllIps) <= Len(Pool) =>
             \A e \in Ends("initiator") :
                 e.local # e.peer => UserOf(e.local).name # UserOf(e.peer).name

Holders(r) == {i \in DOMAIN assigned : Pool[assigned[i].name] = None /\ assigned[i].role = r}

\* user_pool.py:93-99: among the users without a fixed role the roles are evenly
\* spread at any time, and nobody's fixed role is replaced.
RolesAreEven ==
    /\ \A r, s \in ToSet(Roles) : Cardinality(Holders(r)) <= Cardinality(Holders(s)) + 1
    /\ \A i \in DOMAIN assigned :
         Pool[assigned[i].name] \in {None, assigned[i].role}

\* What the comments promise without those conditions: calls between two nodes
\* whatever their ranges, and ...
CallsAlwaysCrossNodes ==
    Len(ranges) > 1 =>
        \A e \in Ends("initiator") : e.id[1] # "screenshare" => e.local[1] # e.peer[1]

\* ... different users whatever the number of addresses.
CallersAlwaysDiffer ==
    phase = "done" /\ RadiusEnabled =>
        \A e \in Ends("initiator") :
            e.local # e.peer => UserOf(e.local).name # UserOf(e.peer).name
=============================================================================
