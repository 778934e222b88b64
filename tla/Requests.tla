------------------------------ MODULE Requests ------------------------------
(***************************************************************************)
(* One HTTP request in the hands of its handler (internal/handler), which  *)
(* reads rows, decides, writes rows and answers, each query on its own:    *)
(* no handler of these endpoints opens a transaction over two of them.     *)
(* Every request of a behaviour has arrived in the initial state; what its *)
(* handler does, and in which order, is in the modules that extend this    *)
(* one.                                                                    *)
(***************************************************************************)
EXTENDS Integers, FiniteSets

CONSTANTS
    Requests,  \* the requests of a behaviour; a new row takes its request as its id
    Arrivals,  \* what the requests of a behaviour may be: [op, tenant, role, id, ask, ...]
               \* for each, with the tenant and role of its JWT and the fields it sets
    MaxFaults, \* bound on the requests that meet failing queries
    Nothing

VARIABLES
    call,   \* what each request asks
    at,     \* the step its handler takes next
    held,   \* the row, or rows, the handler has read
    answer, \* the status code written, 0 before
    hit     \* the requests one of whose queries failed

reqVars == <<call, at, held, answer, hit>>

\* Without a JWT: POST /auth/token, and the seeding of a starting process.
Open == {"token", "seed"}

ReqInit ==
    /\ call \in Arrivals
    /\ at = [r \in Requests |-> IF call[r].op \in Open THEN call[r].op ELSE "enter"]
    /\ held = [r \in Requests |-> Nothing]
    /\ answer = [r \in Requests |-> 0]
    /\ hit = {}

-----------------------------------------------------------------------------
(* Rows. A table is a function from the ids of its rows.                    *)

\* The fields of a request that are set replace those of the row it read.
Over(ask, row) == [c \in DOMAIN row |-> IF c \in DOMAIN ask THEN ask[c] ELSE row[c]]

\* INSERT, or UPDATE of a row that exists.
Put(table, id, row) == [x \in DOMAIN table \cup {id} |-> IF x = id THEN row ELSE table[x]]

\* UPDATE ... WHERE id = id: no row is no error.
Rewrite(table, id, row) == IF id \in DOMAIN table THEN Put(table, id, row) ELSE table

\* DELETE ... WHERE id = id: the same.
Remove(table, id) == [x \in DOMAIN table \ {id} |-> table[x]]

\* SELECT ... WHERE id = $1 AND tenant_id = $2.
Owned(table, id, t) == id \in DOMAIN table /\ table[id].tenant = t

-----------------------------------------------------------------------------
(* The ways a step of a handler ends.                                       *)

Goto(r, step) ==
    /\ at' = [at EXCEPT ![r] = step]
    /\ UNCHANGED <<call, held, answer, hit>>

Keep(r, row, step) ==
    /\ at' = [at EXCEPT ![r] = step]
    /\ held' = [held EXCEPT ![r] = row]
    /\ UNCHANGED <<call, answer, hit>>

\* A middleware answers and the handler does not run.
Refuse(r, code) ==
    /\ at' = [at EXCEPT ![r] = "done"]
    /\ held' = [held EXCEPT ![r] = Nothing]
    /\ answer' = [answer EXCEPT ![r] = code]
    /\ UNCHANGED <<call, hit>>

\* bindRequest answers 400 to a body it cannot decode and returns the result of
\* c.JSON, which is nil: the handler goes on with the fields decoded so far, and its
\* own answer comes second, behind a status line already sent.
Code(r, code) == IF call[r].broken THEN 400 ELSE code

Reply(r, code) == Refuse(r, Code(r, code))

\* A query of the step fails and the handler gives up.
Hit(r) ==
    /\ Cardinality(hit \cup {r}) <= MaxFaults
    /\ hit' = hit \cup {r}

GiveUp(r, code) ==
    /\ Hit(r)
    /\ at' = [at EXCEPT ![r] = "done"]
    /\ held' = [held EXCEPT ![r] = Nothing]
    /\ answer' = [answer EXCEPT ![r] = code]
    /\ UNCHANGED call

\* A query of the step fails and the handler goes on all the same.
GoOn(r, step) ==
    /\ Hit(r)
    /\ at' = [at EXCEPT ![r] = step]
    /\ UNCHANGED <<call, held, answer>>

\* handleError: the errors of the database have no case of their own.
StatusOf ==
    [notFound |-> 404, validation |-> 400, conflict |-> 409, invalidKey |-> 401,
     inactive |-> 403, smtpNotSet |-> 400, spam |-> 400, other |-> 500]

Fail(r, error) == Reply(r, StatusOf[error])
=============================================================================
