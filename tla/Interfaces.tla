------------------------------ MODULE Interfaces ------------------------------
(***************************************************************************)
(* The VRFs and interfaces of src/network/vrf.c and if.c: two trees of VRFs  *)
(* (vrfs_by_id, vrfs_by_name) and two trees of interfaces in every VRF,      *)
(* under the calls a program makes when the kernel announces, changes and    *)
(* removes VRFs and interfaces and when it is configured.  A tree is the set *)
(* of its nodes.  An insertion that meets an equal node, and the removal of  *)
(* a node that is not in the tree, are what if.h logs as "corruption         *)
(* detected"; corrupt remembers them.                                        *)
(*                                                                           *)
(* NULL stands for VRF_UNKNOWN, for IFINDEX_INTERNAL and for the empty name. *)
(***************************************************************************)
EXTENDS FiniteSets, FiniteSetsExt

CONSTANTS NULL,
          Vrf, Ifp,              \* the addresses of VRFs and interfaces
          Id, VrfName,           \* what the kernel calls VRFs
          Default, DefaultName,  \* VRF_DEFAULT, VRF_DEFAULT_NAME
          IfName, Index          \* what the kernel calls interfaces

VARIABLES net, backend

netVars == <<net, backend>>

Vrfs(n) == {v \in Vrf : n.vrf[v] # NULL}
Ifps(n) == {i \in Ifp : n.ifp[i] # NULL}
Members(n, v) == {i \in Ifps(n) : n.ifp[i].vrf = v}

Find(S, P(_)) == IF \E x \in S : P(x) THEN CHOOSE x \in S : P(x) ELSE NULL
-----------------------------------------------------------------------------
(* The trees                                                                  *)

IdInsert(n, v) ==
  IF \E w \in n.byId : n.vrf[w].id = n.vrf[v].id THEN [n EXCEPT !.corrupt = TRUE] ELSE [n EXCEPT !.byId = @ \cup {v}]

IdRemove(n, v) == [n EXCEPT !.byId = @ \ {v}, !.corrupt = @ \/ v \notin n.byId]

NameInsert(n, v) ==
  IF \E w \in n.byName : n.vrf[w].name = n.vrf[v].name THEN [n EXCEPT !.corrupt = TRUE]
  ELSE [n EXCEPT !.byName = @ \cup {v}]

NameRemove(n, v) == [n EXCEPT !.byName = @ \ {v}, !.corrupt = @ \/ v \notin n.byName]

IFNAME_RB_INSERT(n, v, i) ==
  IF \E j \in n.vrf[v].byName : n.ifp[j].name = n.ifp[i].name THEN [n EXCEPT !.corrupt = TRUE]
  ELSE [n EXCEPT !.vrf[v].byName = @ \cup {i}]

IFNAME_RB_REMOVE(n, v, i) ==
  [n EXCEPT !.vrf[v].byName = @ \ {i}, !.corrupt = @ \/ i \notin n.vrf[v].byName]

IFINDEX_RB_INSERT(n, v, i) ==
  IF n.ifp[i].index = NULL THEN n
  ELSE IF \E j \in n.vrf[v].byIndex : n.ifp[j].index = n.ifp[i].index THEN [n EXCEPT !.corrupt = TRUE]
  ELSE [n EXCEPT !.vrf[v].byIndex = @ \cup {i}]

IFINDEX_RB_REMOVE(n, v, i) ==
  IF n.ifp[i].index = NULL THEN n
  ELSE [n EXCEPT !.vrf[v].byIndex = @ \ {i}, !.corrupt = @ \/ i \notin n.vrf[v].byIndex]

vrf_lookup_by_id(n, id) == Find(n.byId, LAMBDA v : n.vrf[v].id = id)
vrf_lookup_by_name(n, name) == Find(n.byName, LAMBDA v : n.vrf[v].name = name)
if_lookup_by_name_vrf(n, name, v) == Find(n.vrf[v].byName, LAMBDA i : n.ifp[i].name = name)
if_lookup_by_name_all_vrf(n, name) ==
  Find(UNION {n.vrf[v].byName : v \in n.byName}, LAMBDA i : n.ifp[i].name = name)

if_lookup_by_ifindex(n, index, id) ==
  LET v == vrf_lookup_by_id(n, id)
  IN IF v = NULL THEN NULL ELSE Find(n.vrf[v].byIndex, LAMBDA i : n.ifp[i].index = index)
-----------------------------------------------------------------------------
(* VRFs                                                                       *)

\* What vrf_get finds, or NULL, and whether it refuses to look further.
Refuses(n, id, name) ==
  \/ id = NULL /\ name = NULL
  \/ LET v == vrf_lookup_by_name(n, name) IN v # NULL /\ id # NULL /\ n.vrf[v].id \notin {NULL, id}

Found(n, id, name) ==
  LET v == vrf_lookup_by_name(n, name)
  IN IF v = NULL /\ id # NULL THEN vrf_lookup_by_id(n, id) ELSE v

Created(n, v) ==
  [n EXCEPT !.vrf[v] = [id |-> NULL, name |-> NULL, active |-> FALSE, configured |-> FALSE,
                        byName |-> {}, byIndex |-> {}]]

Identified(n, v, id) == IF id = NULL \/ n.vrf[v].id # NULL THEN n ELSE IdInsert([n EXCEPT !.vrf[v].id = id], v)

Named(n, v, name) ==
  IF name \in {NULL, n.vrf[v].name} THEN n
  ELSE LET free == IF n.vrf[v].name = NULL THEN n ELSE NameRemove(n, v)
       IN NameInsert([free EXCEPT !.vrf[v].name = name], v)

vrf_get(n, id, name) ==
  IF Refuses(n, id, name) THEN [net |-> n, vrf |-> NULL]
  ELSE LET f == Found(n, id, name)
           v == IF f = NULL THEN CHOOSE w \in Vrf : n.vrf[w] = NULL ELSE f
           m == IF f = NULL THEN Created(n, v) ELSE n
       IN [net |-> Named(Identified(m, v, id), v, name), vrf |-> v]

vrf_disable(n, v) == [n EXCEPT !.vrf[v].active = FALSE]

vrf_update(n, id, name) ==
  LET v == vrf_lookup_by_name(n, name)
  IN IF v # NULL /\ id # NULL /\ n.vrf[v].id \notin {NULL, id}
     THEN IdInsert([IdRemove(vrf_disable(n, v), v) EXCEPT !.vrf[v].id = id], v)
     ELSE vrf_get(n, id, name).net


\* The identifier goes; the VRF stays while it is configured or has interfaces.
vrf_delete(n, v) ==
  LET m == IF n.vrf[v].id = NULL THEN vrf_disable(n, v)
           ELSE [IdRemove(vrf_disable(n, v), v) EXCEPT !.vrf[v].id = NULL]
  IN IF m.vrf[v].configured \/ m.vrf[v].byName # {} THEN m
     ELSE [(IF m.vrf[v].name = NULL THEN m ELSE NameRemove(m, v)) EXCEPT !.vrf[v] = NULL]
-----------------------------------------------------------------------------
(* Interfaces                                                                 *)

if_delete(n, i) ==
  [IFINDEX_RB_REMOVE(IFNAME_RB_REMOVE(n, n.ifp[i].vrf, i), n.ifp[i].vrf, i) EXCEPT !.ifp[i] = NULL]

\* if_new and if_set_name.
if_create_name(n, name, v) ==
  LET i == CHOOSE j \in Ifp : n.ifp[j] = NULL
  IN IFNAME_RB_INSERT([n EXCEPT !.ifp[i] = [name |-> name, index |-> NULL, vrf |-> v, configured |-> FALSE]], v, i)

if_set_index(n, i, index) ==
  LET v == n.ifp[i].vrf
  IN IF n.ifp[i].index = index \/ if_lookup_by_ifindex(n, index, n.vrf[v].id) # NULL THEN n
     ELSE IFINDEX_RB_INSERT([IFINDEX_RB_REMOVE(n, v, i) EXCEPT !.ifp[i].index = index], v, i)

if_update_to_new_vrf(n, i, id) ==
  LET old == n.ifp[i].vrf
      got == vrf_get(IFINDEX_RB_REMOVE(IFNAME_RB_REMOVE(n, old, i), old, i), id, NULL)
      m == [got.net EXCEPT !.ifp[i].vrf = got.vrf]
  IN IFINDEX_RB_INSERT(IFNAME_RB_INSERT(m, got.vrf, i), got.vrf, i)

\* "If it came from the kernel or by way of zclient, believe it".
Believed(n, i, id) ==
  IF id \in {NULL, n.vrf[n.ifp[i].vrf].id} THEN n ELSE if_update_to_new_vrf(n, i, id)

if_get_by_name(n, name, id, vrfname) ==
  LET got == vrf_get(n, id, vrfname)
      there == IF backend = "lite" THEN if_lookup_by_name_all_vrf(n, name)
               ELSE if_lookup_by_name_vrf(got.net, name, got.vrf)
  IN IF there # NULL THEN Believed(IF backend = "lite" THEN n ELSE got.net, there, id)
     ELSE if_create_name(got.net, name, got.vrf)

if_destroy_via_zapi(n, i) ==
  LET m == if_set_index(n, i, NULL)
  IN IF n.ifp[i].configured THEN m ELSE if_delete(m, i)

if_terminate(n, v) == FoldSet(LAMBDA i, m : if_delete(m, i), n, n.vrf[v].byName)

vrf_terminate_single(n, v) == vrf_delete(if_terminate([vrf_disable(n, v) EXCEPT !.vrf[v].configured = FALSE], v), v)

Others(n, tree) == {v \in tree : n.vrf[v].id # Default}

vrf_terminate(n) ==
  LET byId == FoldSet(LAMBDA v, m : vrf_terminate_single(m, v), n, Others(n, n.byId))
      byName == FoldSet(LAMBDA v, m : vrf_terminate_single(m, v), byId, Others(byId, byId.byName))
      v == vrf_lookup_by_id(byName, Default)
  IN IF v = NULL THEN byName ELSE vrf_terminate_single(byName, v)
-----------------------------------------------------------------------------
(* The program that uses them                                                 *)

Nothing == [vrf |-> [v \in Vrf |-> NULL], ifp |-> [i \in Ifp |-> NULL], byId |-> {}, byName |-> {}, corrupt |-> FALSE]

vrf_init(n) ==
  LET got == vrf_get(n, Default, DefaultName) IN [got.net EXCEPT !.vrf[got.vrf].active = TRUE]

NetInit == net = vrf_init(Nothing) /\ backend \in {"lite", "netns"}

\* The kernel gives an identifier to one VRF at a time: a VRF known by another
\* name, or not known by its name, does not hold it any more.
Consistent(id, name) ==
  LET v == vrf_lookup_by_name(net, name)
  IN v # NULL /\ id # NULL /\ net.vrf[v].id # id => vrf_lookup_by_id(net, id) = NULL

\* vrf_get finds the VRF, or there is an address for a new one.
HasRoom(id, name) == Found(net, id, name) # NULL \/ Vrfs(net) # Vrf

Running == net.byId # {} /\ UNCHANGED backend

\* An interface does not meet another of its name or index in the VRF it enters.
Fits(i, id) ==
  LET v == vrf_lookup_by_id(net, id)
  IN v # NULL => \A j \in Members(net, v) \ {i} :
       net.ifp[j].name # net.ifp[i].name /\ (net.ifp[i].index # NULL => net.ifp[j].index # net.ifp[i].index)

AnnounceVrf ==
  /\ Running
  /\ \E id \in Id \cup {NULL}, name \in VrfName \cup {NULL} :
       /\ HasRoom(id, name) /\ Consistent(id, name) /\ (id = Default) = (name = DefaultName)
       /\ net' = vrf_get(net, id, name).net \/ (name # NULL /\ net' = vrf_update(net, id, name))

EnableVrf ==
  Running /\ \E v \in Vrfs(net) : net.vrf[v].id # NULL /\ net' = [net EXCEPT !.vrf[v].active = TRUE]

ConfigureVrf ==
  /\ Running
  /\ \E v \in Vrfs(net) : net.vrf[v].name # NULL /\ net' = [net EXCEPT !.vrf[v].configured = ~@]

\* vrf_delete says "Interfaces assigned to this VRF should've been removed
\* already"; a VRF with a name may keep some.
RemoveVrf ==
  /\ Running
  /\ \E v \in Vrfs(net) :
       /\ net.vrf[v].id # Default /\ (net.vrf[v].name = NULL => Members(net, v) = {})
       /\ net' = vrf_delete(net, v)

\* The callers of if_get_by_name pass a VRF that vrf_get accepts (it is asserted),
\* and one with a name or an index that its interface can be found by again.
AnnounceIfp ==
  /\ Running /\ Ifps(net) # Ifp
  /\ \E name \in IfName, id \in Id \cup {NULL}, vrfname \in VrfName \cup {NULL} :
       /\ ~Refuses(net, id, vrfname) /\ HasRoom(id, vrfname) /\ Consistent(id, vrfname)
       /\ (id = Default) => vrfname \in {NULL, DefaultName}
       /\ vrfname = DefaultName => id = Default
       /\ backend = "lite" => \A i \in Ifps(net) : net.ifp[i].name = name =>
            net.vrf[net.ifp[i].vrf].name # NULL /\ (id # NULL => Fits(i, id) /\ HasRoom(id, NULL))
       /\ net' = if_get_by_name(net, name, id, vrfname)

\* In a VRF without identifier if_set_index cannot see a collision.
IndexIfp ==
  /\ Running
  /\ \E i \in Ifps(net), index \in Index :
       /\ LET v == net.ifp[i].vrf
          IN net.vrf[v].id = NULL => \A j \in Members(net, v) \ {i} : net.ifp[j].index # index
       /\ net' = if_set_index(net, i, index)

MoveIfp ==
  /\ Running
  /\ \E i \in Ifps(net), id \in Id : HasRoom(id, NULL) /\ Fits(i, id) /\ net' = if_update_to_new_vrf(net, i, id)

ConfigureIfp == Running /\ \E i \in Ifps(net) : net' = [net EXCEPT !.ifp[i].configured = ~@]

RemoveIfp == Running /\ \E i \in Ifps(net) : net' = if_destroy_via_zapi(net, i)

Terminate == Running /\ net' = vrf_terminate(net)

Restart == net.byId = {} /\ net' = vrf_init(net) /\ UNCHANGED backend

NetNext ==
  \/ AnnounceVrf \/ EnableVrf \/ ConfigureVrf \/ RemoveVrf
  \/ AnnounceIfp \/ IndexIfp \/ MoveIfp \/ ConfigureIfp \/ RemoveIfp
  \/ Terminate \/ Restart
-----------------------------------------------------------------------------
=============================================================================
