------------------------------- MODULE Update -------------------------------
(***************************************************************************)
(* Requests that write: SPARQL updates (crates/holos-engine/src/update.rs) *)
(* and the Graph Store Protocol's PUT, POST and DELETE (crates/            *)
(* holos-server/src/gsp.rs, and their handler in main.rs).                 *)
(*                                                                         *)
(* The store is used through its promise, AbstractStore.  A request is a   *)
(* sequence of operations, an operation a sequence of writes of one quad   *)
(* or one graph, and any of them may be refused by the session's policy or *)
(* by the store, or be the last before a crash.  The engine is locked for  *)
(* the whole request, so two requests never interleave.                    *)
(*                                                                         *)
(* A policy is what it says of each quad.  A WHERE clause is the quads its *)
(* templates yield, evaluated before the operation's first write.          *)
(***************************************************************************)
EXTENDS Integers, FiniteSets

CONSTANTS
    Statement, NamedGraph, HomeOf, HomeDefault,  \* as in AbstractStore
    Session,                                     \* principals with their policies
    Readable,                                    \* the quads a session may read
    Writable,                                    \* the quads a session may write
    Strict,                                      \* sessions with Semantics::Fail
    MaxOps,                                      \* operations of an update, or documents of a PUT or POST
    MaxQuads                                     \* quads an operation names

ASSUME StatementAssumption == HomeOf \in [Statement -> NamedGraph \cup {HomeDefault}] /\ HomeDefault \notin NamedGraph

ASSUME PolicyAssumption ==
    /\ Readable \in [Session -> SUBSET Statement] /\ Writable \in [Session -> SUBSET Statement]
    /\ Strict \subseteq Session

ASSUME UpdateBoundAssumption == MaxOps \in Nat /\ MaxQuads \in Nat

VARIABLES
    committed, current, open,  \* the store, as in AbstractStore
    session,                   \* who asks
    pc,                        \* "idle", "between" operations, "working" at one, "ending"
    kind,                      \* "update", "PUT", "POST" or "DELETE"
    target,                    \* the target of the latter three
    plan,                      \* what is left of the operation
    ended_as,                  \* "ok", "failed", "denied" (EngineError::AccessDenied), "withheld"
                               \* (ViewError::AccessDenied), or "missing" (404)
    inserted, deleted,         \* UpdateOutcome
    done,                      \* operations so far
    at_request,                \* auxiliary: the store when the request came
    meant,                     \* auxiliary: what the operations so far mean
    loose,                     \* auxiliary: the quads and graphs of operations whose failure SILENT hid
    gone,                      \* auxiliary: the graphs the request has set out to drop
    refusals                   \* auxiliary: the policy has refused something of the request

store == <<committed, current, open>>
request == <<session, kind, target, at_request>>
outcome == <<inserted, deleted>>
history == <<loose, gone, refusals>>
update_vars == <<store, request, pc, plan, ended_as, outcome, done, meant, history>>

Store == INSTANCE AbstractStore WITH
    Quad <- Statement, Graph <- NamedGraph, DefaultGraph <- HomeDefault, GraphOf <- HomeOf

NoPlan == [remove |-> {}, insert |-> {}, drop |-> {}, create |-> {}, silent |-> FALSE]
Nothing == [quads |-> {}, graphs |-> {}]

-----------------------------------------------------------------------------
(* What an operation names                                                 *)

Wildcard == {"named", "all"}
Target == NamedGraph \cup {HomeDefault} \cup Wildcard

InTarget(t) ==
    CASE t = "all"   -> Statement
      [] t = "named" -> {q \in Statement : HomeOf[q] # HomeDefault}
      [] OTHER       -> {q \in Statement : HomeOf[q] = t}

\* A wildcard is scanned as a whole, and filtered afterwards.
Scanned(t) == current.quads \cap IF t \in Wildcard THEN Statement ELSE InTarget(t)

\* visible_quads: Semantics::Fail refuses a scan that meets a quad it may not show.
ScanDenied(s, t) == s \in Strict /\ ~(Scanned(t) \subseteq Readable[s])
quads_in(t) == Scanned(t) \cap InTarget(t) \cap Readable[session]

DroppedBy(t) == IF t \in Wildcard THEN current.graphs ELSE {t} \ {HomeDefault}

Few(S) == {X \in SUBSET S : Cardinality(X) <= MaxQuads}

\* What dropping or creating does to a dataset, and writing quads to it.
Without(d, quads, graphs) ==
    [quads |-> {q \in d.quads \ quads : HomeOf[q] \notin graphs}, graphs |-> d.graphs \ graphs]
With(d, quads, graphs) ==
    [quads |-> d.quads \cup quads, graphs |-> d.graphs \cup graphs \cup UNION {Store!GraphsOfQuad(q) : q \in quads}]

\* The quads and graphs a plan may change.
Touched(p) ==
    [quads |-> p.remove \cup p.insert \cup {q \in Statement : HomeOf[q] \in p.drop},
     graphs |-> p.drop \cup p.create \cup UNION {Store!GraphsOfQuad(q) : q \in p.insert}]

-----------------------------------------------------------------------------
(* How an operation begins and ends                                        *)

UpdateInit ==
    /\ Store!Init
    /\ session \in Session /\ kind = "update" /\ target = HomeDefault
    /\ at_request = Store!EmptyDataset /\ meant = Store!EmptyDataset
    /\ loose = Nothing /\ gone = {} /\ refusals = FALSE
    /\ pc = "idle" /\ plan = NoPlan /\ ended_as = "ok" /\ inserted = 0 /\ deleted = 0 /\ done = 0

\* The writes of an operation, and its meaning: all of it, deletions first.
Begins(p) ==
    /\ plan' = p /\ pc' = "working" /\ done' = done + 1
    /\ meant' = With(Without(meant, p.remove, p.drop), p.insert, p.create)
    /\ gone' = gone \cup p.drop
    /\ UNCHANGED <<store, request, ended_as, outcome, loose, refusals>>

EndsWith(r) == pc' = "ending" /\ ended_as' = r

\* A mutation: SILENT hides a write that the policy refused, too.
M_silence_hides_refusals(r, silent) ==
    IF silent THEN pc' = "between" /\ UNCHANGED ended_as ELSE EndsWith(r)

\* SILENT hides an operation's failure, unless it is EngineError::AccessDenied.  A scan
\* that the policy refuses is an EngineError::View, and is hidden.
silence(r, silent) ==
    IF silent /\ r # "denied" THEN pc' = "between" /\ UNCHANGED ended_as ELSE EndsWith(r)

\* An operation that fails before it has written anything.
RefusedAt(r, silent) ==
    /\ silence(r, silent)
    /\ done' = done + 1
    /\ refusals' = (refusals \/ r \in {"denied", "withheld"})
    /\ UNCHANGED <<store, request, plan, outcome, meant, loose, gone>>

NextOperation == pc = "between" /\ kind = "update" /\ done < MaxOps

\* A permitted write is one call of the store.
Writes(p) == plan' = p /\ UNCHANGED <<request, pc, ended_as, done, meant, history>>

-----------------------------------------------------------------------------
(* The operations of an update                                             *)

\* apply: the first thing is the scope.
StartUpdate ==
    /\ pc = "idle"
    /\ Store!Begin
    /\ pc' = "between" /\ kind' = "update" /\ session' \in Session
    /\ at_request' = current /\ meant' = current /\ loose' = Nothing /\ gone' = {} /\ refusals' = FALSE
    /\ inserted' = 0 /\ deleted' = 0 /\ done' = 0 /\ plan' = NoPlan /\ ended_as' = "ok" /\ target' = HomeDefault

InsertData ==
    /\ NextOperation
    /\ \E data \in Few(Statement) : Begins([NoPlan EXCEPT !.insert = data])

DeleteData ==
    /\ NextOperation
    /\ \E data \in Few(Statement) : Begins([NoPlan EXCEPT !.remove = data])

\* The WHERE clause is read through the view; evaluating it may fail, and is refused when
\* a strict session meets a quad it may not see.
delete_insert ==
    /\ NextOperation
    /\ \/ \E to_delete, to_insert \in Few(Statement) :
            Begins([NoPlan EXCEPT !.remove = to_delete, !.insert = to_insert])
       \/ RefusedAt("failed", FALSE)
       \/ ScanDenied(session, "all") /\ RefusedAt("withheld", FALSE)

\* The source is parsed to its end before the first write.
load ==
    /\ NextOperation
    /\ \E silent \in BOOLEAN, g \in NamedGraph \cup {HomeDefault} :
        \/ \E loaded \in Few(InTarget(g)) : Begins([NoPlan EXCEPT !.insert = loaded, !.silent = silent])
        \/ RefusedAt("failed", silent)

\* A graph that is named must exist; what goes is what the session can see.
clear(t, silent, drop) ==
    IF t \in NamedGraph \ current.graphs THEN RefusedAt("failed", silent)
    ELSE IF ScanDenied(session, t) THEN RefusedAt("withheld", silent)
    ELSE Begins([NoPlan EXCEPT !.remove = quads_in(t), !.drop = drop, !.silent = silent])

Clear == NextOperation /\ \E t \in Target, silent \in BOOLEAN : clear(t, silent, {})

\* DROP is CLEAR and then the catalogue's entries.
drop_graph == NextOperation /\ \E t \in Target, silent \in BOOLEAN : clear(t, silent, DroppedBy(t))

create ==
    /\ NextOperation
    /\ \E g \in NamedGraph, silent \in BOOLEAN :
        IF g \in current.graphs THEN RefusedAt("failed", silent)
        ELSE Begins([NoPlan EXCEPT !.create = {g}, !.silent = silent])

EndUpdate ==
    /\ pc = "between" /\ kind = "update"
    /\ EndsWith("ok")
    /\ UNCHANGED <<store, request, plan, outcome, done, meant, history>>

-----------------------------------------------------------------------------
(* The Graph Store Protocol                                                *)

\* graph_store: what cannot be scanned, a DELETE of what does not exist, and a body that is
\* no RDF are answered before the scope is opened.  The functions of gsp.rs join the scope.
StartGraphStore ==
    /\ pc = "idle"
    /\ session' \in Session /\ kind' \in {"PUT", "POST", "DELETE"} /\ target' \in NamedGraph \cup {HomeDefault}
    /\ at_request' = current /\ meant' = current /\ loose' = Nothing /\ gone' = {}
    /\ refusals' = ScanDenied(session', target') /\ inserted' = 0 /\ deleted' = 0 /\ done' = 0 /\ plan' = NoPlan
    /\ LET exists == target' \in current.graphs \/ current.quads \cap InTarget(target') \cap Readable[session'] # {}
       IN  IF ScanDenied(session', target') THEN pc' = "idle" /\ ended_as' = "failed" /\ UNCHANGED store
           ELSE IF kind' = "DELETE" /\ ~exists THEN pc' = "idle" /\ ended_as' = "missing" /\ UNCHANGED store
           ELSE Store!Begin /\ pc' = "clearing" /\ ended_as' = "ok"

\* A PUT and a DELETE begin with clear, which asks for no graph of the name.  A scan that
\* the policy refuses was refused by exists already.
gsp_clear ==
    /\ pc = "clearing"
    /\ IF kind = "POST" THEN pc' = "between" /\ UNCHANGED <<store, request, plan, ended_as, outcome, done, meant, history>>
       ELSE /\ pc' = "working"
            /\ plan' = [NoPlan EXCEPT !.remove = quads_in(target), !.drop = IF kind = "DELETE" THEN DroppedBy(target) ELSE {}]
            /\ meant' = Without(meant, plan'.remove, plan'.drop) /\ gone' = gone \cup plan'.drop
            /\ UNCHANGED <<store, request, ended_as, outcome, done, loose, refusals>>

\* merge: a document is parsed to its end before its first write.
merge_graph ==
    /\ pc = "between" /\ kind \in {"PUT", "POST"} /\ done < MaxOps
    /\ \/ \E quads \in Few(InTarget(target)) : Begins([NoPlan EXCEPT !.insert = quads])
       \/ RefusedAt("failed", FALSE)

\* The last part of a write registers the graph.
gsp_create ==
    /\ pc = "between" /\ kind \in {"PUT", "POST"}
    /\ IF target = HomeDefault THEN EndsWith("ok") /\ UNCHANGED <<store, meant>>
       ELSE /\ Store!InsertNamedGraph(target) /\ meant' = With(meant, {}, {target})
            /\ EndsWith("ok") \/ EndsWith("failed")
    /\ UNCHANGED <<request, plan, outcome, done, history>>

\* drop_graph has no documents to merge.
EndDelete ==
    /\ pc = "between" /\ kind = "DELETE"
    /\ EndsWith("ok")
    /\ UNCHANGED <<store, request, plan, outcome, done, meant, history>>

-----------------------------------------------------------------------------
(* The writes of an operation                                              *)

Present(q) == IF q \in current.quads THEN 1 ELSE 0

\* Deletions first.
Deleted == plan.remove = {}

\* A mutation: what may be written may be deleted.
M_MayRemove_unseen(q) == q \in Writable[session]

\* A session that may not read a quad may not delete it either.
MayRemove(q) == q \in Writable[session] \cap Readable[session]

remove ==
    /\ pc = "working"
    /\ \E q \in plan.remove :
        /\ MayRemove(q)
        /\ Store!Remove(q)
        /\ deleted' = deleted + Present(q)
        /\ Writes([plan EXCEPT !.remove = @ \ {q}])
    /\ UNCHANGED inserted

insert ==
    /\ pc = "working" /\ Deleted
    /\ \E q \in plan.insert :
        /\ q \in Writable[session]
        /\ Store!Insert(q)
        /\ inserted' = inserted + 1 - Present(q)
        /\ Writes([plan EXCEPT !.insert = @ \ {q}])
    /\ UNCHANGED deleted

remove_named_graph ==
    /\ pc = "working" /\ Deleted
    /\ \E g \in plan.drop : Store!DropNamedGraph(g) /\ Writes([plan EXCEPT !.drop = @ \ {g}])
    /\ UNCHANGED outcome

insert_graph_name ==
    /\ pc = "working"
    /\ \E g \in plan.create : Store!InsertNamedGraph(g) /\ Writes([plan EXCEPT !.create = @ \ {g}])
    /\ UNCHANGED outcome

\* AccessDenied, for the quad whose turn it is.
Denied ==
    /\ pc = "working"
    /\ \/ \E q \in plan.remove : ~MayRemove(q)
       \/ Deleted /\ \E q \in plan.insert : q \notin Writable[session]
    /\ silence("denied", plan.silent)
    /\ plan' = NoPlan /\ refusals' = TRUE
    /\ UNCHANGED <<store, request, outcome, done, meant, loose, gone>>

\* The store refuses a write, which may be in the scope all the same.
StoreFails ==
    /\ pc = "working" /\ plan # [NoPlan EXCEPT !.silent = plan.silent]
    /\ silence("failed", plan.silent)
    /\ plan' = NoPlan
    /\ loose' = IF plan.silent
                THEN [quads |-> loose.quads \cup Touched(plan).quads, graphs |-> loose.graphs \cup Touched(plan).graphs]
                ELSE loose
    /\ \/ \E q \in plan.remove : MayRemove(q) /\ Store!Remove(q)
       \/ Deleted /\ \E q \in plan.insert : q \in Writable[session] /\ Store!Insert(q)
       \/ Deleted /\ \E g \in plan.drop : Store!DropNamedGraph(g)
       \/ \E g \in plan.create : Store!InsertNamedGraph(g)
       \/ UNCHANGED store
    /\ UNCHANGED <<request, outcome, done, meant, gone, refusals>>

EndOperation ==
    /\ pc = "working" /\ plan = [NoPlan EXCEPT !.silent = plan.silent]
    /\ pc' = "between" /\ plan' = NoPlan
    /\ UNCHANGED <<store, request, ended_as, outcome, done, meant, history>>

-----------------------------------------------------------------------------
(* How a request ends                                                      *)

\* A mutation: what the operations before the failure did is kept.
M_End_always_commits ==
    /\ pc = "ending" /\ Store!Commit
    /\ pc' = "idle" /\ UNCHANGED <<request, plan, ended_as, outcome, done, meant, history>>

\* Commit or roll back; a commit that fails leaves nothing either, and is an error.
End ==
    /\ pc = "ending"
    /\ \/ ended_as = "ok" /\ Store!Commit /\ UNCHANGED ended_as
       \/ ended_as = "ok" /\ Store!Abandon /\ ended_as' = "failed"
       \/ ended_as # "ok" /\ Store!Abandon /\ UNCHANGED ended_as
    /\ pc' = "idle"
    /\ UNCHANGED <<request, plan, outcome, done, meant, history>>

ProcessDies ==
    /\ pc # "idle" /\ Store!Abandon
    /\ pc' = "idle" /\ plan' = NoPlan /\ ended_as' = "failed"
    /\ UNCHANGED <<request, outcome, done, meant, history>>

UpdateNext ==
    \/ StartUpdate \/ InsertData \/ DeleteData \/ delete_insert \/ load \/ Clear \/ drop_graph \/ create \/ EndUpdate
    \/ StartGraphStore \/ gsp_clear \/ merge_graph \/ gsp_create \/ EndDelete
    \/ remove \/ insert \/ remove_named_graph \/ insert_graph_name \/ Denied \/ StoreFails \/ EndOperation
    \/ End \/ ProcessDies

UpdateSpec == UpdateInit /\ [][UpdateNext]_update_vars

-----------------------------------------------------------------------------
(* Properties                                                              *)

\* Every variable has its type, and the scope is open exactly while a request is served.
UpdateTypeOK ==
    /\ Store!TypeOK
    /\ session \in Session /\ kind \in {"update", "PUT", "POST", "DELETE"} /\ target \in NamedGraph \cup {HomeDefault}
    /\ pc \in {"idle", "clearing", "between", "working", "ending"} /\ open = (pc # "idle")
    /\ plan \in [remove : SUBSET Statement, insert : SUBSET Statement, drop : SUBSET NamedGraph, create : SUBSET NamedGraph, silent : BOOLEAN]
    /\ ended_as \in {"ok", "failed", "denied", "withheld", "missing"}
    /\ inserted \in Nat /\ deleted \in Nat /\ done \in 0..MaxOps
    /\ at_request \in Store!Dataset /\ meant \in Store!Dataset /\ loose \in Store!Dataset
    /\ gone \in SUBSET NamedGraph /\ refusals \in BOOLEAN

\* A request that fails or is refused, wherever in it that happens, and one that is cut off
\* by a crash, leave the store as it was; until a request ends nothing of it is kept.
AllOrNothing ==
    /\ pc # "idle" \/ ended_as # "ok" => committed = at_request
    /\ pc = "idle" => current = committed

\* Two datasets differ in nothing but what is loose.
Agree(a, b) ==
    /\ \A q \in Statement \ loose.quads : q \in a.quads <=> q \in b.quads
    /\ \A x \in NamedGraph \ loose.graphs : x \in a.graphs <=> x \in b.graphs

\* What a successful request leaves is what its operations mean, one after the other, each
\* on what the one before it left: deletions before insertions, a PUT replaces, a SILENT
\* operation that could not begin does nothing.  Where the store failed under SILENT part
\* of that operation may be there and part not, and nothing else is touched by it.
SuccessMeansDone == pc = "idle" /\ ended_as = "ok" => Agree(committed, meant)

\* Nothing a session may not write changes, and nothing it may not read goes, halfway
\* through a request or after it, but with a named graph that the request drops: insert and
\* remove ask for each quad, remove_named_graph for none.
WithinPolicy ==
    /\ current.quads \ at_request.quads \subseteq Writable[session]
    /\ \A q \in at_request.quads \ current.quads :
          q \in Writable[session] \cap Readable[session] \/ HomeOf[q] \in gone

\* "a principal cannot delete, through a wildcard, quads a SELECT would not have shown it"
\* (quads_in_graph), and DELETE and PUT "require read as well as write on what they remove"
\* (gsp.rs), of a graph that is dropped as of any other.
DropsWithinPolicy == at_request.quads \ current.quads \subseteq Writable[session] \cap Readable[session]

\* "SILENT suppresses the operation's own failure, but never a policy refusal" (silence): a
\* request of which the policy refused something does not report success.
RefusalsReported == pc = "idle" /\ refusals => ended_as # "ok"
=============================================================================
