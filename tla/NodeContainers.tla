--------------------------- MODULE NodeContainers ---------------------------
(***************************************************************************)
(* The container list of the node page of crux-ui (src/web/crux-ui/src/    *)
(* components/nodes/node-containers-list.tsx).  It shows one page of the  *)
(* filtered containers, and per row either a loading indicator, while the *)
(* container has a target state, or the restart-or-start, stop and delete  *)
(* buttons, enabled by the container's state.                              *)
(*                                                                         *)
(* The page state (use-node-details-state), the Paginator and the state   *)
(* predicates of @app/models are not in the sample: the filtered list,     *)
(* the container states, the target states and the pagination change by   *)
(* environment steps that may do anything their types allow, and the     *)
(* predicates are the constant sets Restartable, Startable and Stopable.  *)
(***************************************************************************)
EXTENDS Naturals, Sequences, FiniteSets

CONSTANTS Names,            \* container names
          ContainerStates,  \* the values of Container.state
          Restartable,      \* containerIsRestartable
          Startable,        \* containerIsStartable
          Stopable,         \* containerIsStopable
          PageSizes,        \* the page sizes the Paginator offers
          MaxPage,          \* bound on the page number the Paginator sets
          None              \* no target state

ASSUME NodeAssumption ==
  /\ {Restartable, Startable, Stopable} \subseteq SUBSET ContainerStates
  /\ None \notin ContainerStates
  /\ PageSizes \subseteq Nat \ {0}
  /\ MaxPage \in Nat

VARIABLES containers,  \* state.filters.filtered, by name
          cstate,      \* container.state of each container
          target,      \* state.containerTargetStates
          pagination,  \* state.pagination
          last         \* the last call the list made on actions

vars == <<containers, cstate, target, pagination, last>>

\* The default pagination the list gives the Paginator.
DefaultPagination == [pageNumber |-> 0, pageSize |-> 10]

Ops == {"restart", "start", "stop", "delete"}
NoCall == [op |-> "none", name |-> None]

\* Lists of distinct names, the shape of a filtered container list.
Lists == {s \in UNION {[1..n -> Names] : n \in 0..Cardinality(Names)} :
            \A i, j \in DOMAIN s : s[i] = s[j] => i = j}

(***************************************************************************)
(* What the list renders.                                                  *)
(***************************************************************************)
\* Array.prototype.slice(start, end) for 0 <= start <= end.
Slice(s, start, end) ==
  LET e == IF end > Len(s) THEN Len(s) ELSE end
  IN IF start >= e THEN <<>> ELSE SubSeq(s, start + 1, e)

\* A plausible bug: the end of the page is one short.
RowsShort(list, p) ==
  Slice(list, p.pageNumber * p.pageSize, p.pageNumber * p.pageSize + p.pageSize - 1)

\* data={containers.slice(pageNumber * pageSize, pageNumber * pageSize + pageSize)}
Rows(list, p) ==
  Slice(list, p.pageNumber * p.pageSize, p.pageNumber * p.pageSize + p.pageSize)

\* itemBuilder: the enabled buttons of a row.  With a target state only the
\* loading indicator; otherwise restart if restartable, else start (disabled
\* unless startable); stop (disabled unless stopable); delete.
Buttons(c) ==
  IF target[c] # None THEN {}
  ELSE (IF cstate[c] \in Restartable THEN {"restart"}
        ELSE IF cstate[c] \in Startable THEN {"start"} ELSE {})
       \cup (IF cstate[c] \in Stopable THEN {"stop"} ELSE {}) \cup {"delete"}

(***************************************************************************)
(* The user's clicks: onRestartContainer, onStartContainer,               *)
(* onStopContainer and onDeleteContainer with the row's container.        *)
(***************************************************************************)
Click(op, i) ==
  LET rows == Rows(containers, pagination)
  IN /\ i \in 1..Len(rows)
     /\ op \in Buttons(rows[i])
     /\ last' = [op |-> op, name |-> rows[i]]
     /\ UNCHANGED <<containers, cstate, target, pagination>>

(***************************************************************************)
(* The environment: the page state the list is given.                      *)
(***************************************************************************)
\* The agent reports a container state; the filters change the list.
Report(c, s) ==
  /\ cstate' = [cstate EXCEPT ![c] = s]
  /\ UNCHANGED <<containers, target, pagination, last>>

Filter(l) ==
  /\ containers' = l
  /\ UNCHANGED <<cstate, target, pagination, last>>

\* The page state records or drops a target state of a container.
SetTarget(c, s) ==
  /\ target' = [target EXCEPT ![c] = s]
  /\ UNCHANGED <<containers, cstate, pagination, last>>

\* Paginator onChanged={actions.setPagination}.
SetPagination(n, sz) ==
  /\ pagination' = [pageNumber |-> n, pageSize |-> sz]
  /\ UNCHANGED <<containers, cstate, target, last>>

Init ==
  /\ containers \in Lists
  /\ cstate \in [Names -> ContainerStates]
  /\ target = [c \in Names |-> None]
  /\ pagination = DefaultPagination
  /\ last = NoCall

Next ==
  \/ \E op \in Ops, i \in 1..Cardinality(Names) : Click(op, i)
  \/ \E c \in Names, s \in ContainerStates : Report(c, s)
  \/ \E l \in Lists : Filter(l)
  \/ \E c \in Names, s \in ContainerStates \cup {None} : SetTarget(c, s)
  \/ \E n \in 0..MaxPage, sz \in PageSizes : SetPagination(n, sz)

Spec == Init /\ [][Next]_vars

(***************************************************************************)
(* Properties.                                                             *)
(***************************************************************************)
\* The values each variable takes.
TypeOK ==
  /\ containers \in Lists
  /\ cstate \in [Names -> ContainerStates]
  /\ target \in [Names -> ContainerStates \cup {None}]
  /\ pagination \in [pageNumber : 0..MaxPage, pageSize : PageSizes \cup {10}]
  /\ last \in [op : Ops, name : Names] \cup {NoCall}

\* Paging the filtered list by the page size in use shows every container
\* on exactly one page, and the rows of a page are consecutive in the
\* list: the slice bounds of line 114 leave no gap and no overlap,
\* whatever the list and the page size.
PagesPartition ==
  LET n == Len(containers)
      P(k) == [pageNumber |-> k, pageSize |-> pagination.pageSize]
  IN /\ \A i \in 1..n :
          Cardinality({k \in 0..n : \E j \in 1..Len(Rows(containers, P(k))) :
                                       Rows(containers, P(k))[j] = containers[i]}) = 1
     /\ \A k \in 0..n - 1 : \A j \in 1..Len(Rows(containers, P(k))) - 1 :
          \E i \in 1..n - 1 : /\ Rows(containers, P(k))[j] = containers[i]
                              /\ Rows(containers, P(k))[j + 1] = containers[i + 1]

==============================================================================
