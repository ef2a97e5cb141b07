------------------------------- MODULE ApiSteps -------------------------------
(***************************************************************************)
(* The vocabulary in which the modules ApiSignals, ApiOperations, ApiAdmin *)
(* and McpTools write down the hub's HTTP handlers                         *)
(* (hub/internal/api, hub/internal/mcp).                                   *)
(*                                                                         *)
(* A handler is the sequence of the steps at which it reaches outside      *)
(* itself or can end early, in the order of the code: reading a parameter, *)
(* taking the store, resolving the project, querying, writing, answering.  *)
(* What is made of the rows in between is not part of it.  Module Api runs *)
(* the sequences.                                                          *)
(***************************************************************************)
EXTENDS Sequences, Integers

\* do:   what happens       what: on what (a parameter, a store operation, a role)
\* skip: 0 where a failure of the step ends the request, or how many steps the
\*       handler goes on by when it shrugs the failure off
\* when: the conditions under which the step is taken at all
Step(do, what) == [do |-> do, what |-> what, skip |-> 0, when |-> {}]

\* A parameter, a path segment or a body: 400 where it is malformed.
Param(p) == <<Step("param", p)>>

\* A name is looked up in what the handler has read, or a conflict is found in
\* it: another 4xx.
Expect(what) == <<Step("expect", what)>>

\* A query over the telemetry of the tenants the request was resolved to ...
Query(op) == <<Step("query", op)>>
\* ... over the one tenant the header named ...
QueryOne(op) == <<Step("queryOne", op)>>
\* ... and one that is not about any tenant's telemetry.
Control(op) == <<Step("control", op)>>

\* A write into the project's own tenant, and one of the hub's configuration.
Write(op) == <<Step("write", op)>>
Save(op) == <<Step("save", op)>>

\* A 4xx in any case.
Refuse == <<Step("refuse", "always")>>

\* The handler is done, whatever follows in the sequence.
Answer == <<Step("answer", "ok")>>

-----------------------------------------------------------------------------
\* Only with module m, only without it, only where the cluster was read for an
\* identity without a "*" grant, only where it was not read.
Given(c, steps) == [i \in DOMAIN steps |-> [steps[i] EXCEPT !.when = @ \cup {c}]]
With(m, steps) == Given(<<"with", m>>, steps)
Without(m, steps) == Given(<<"without", m>>, steps)
Narrowed(steps) == Given(<<"narrowed">>, steps)
Unread(steps) == Given(<<"unread">>, steps)

\* Only where the data asks for it: all of the steps or none.
Maybe(steps) == <<[Step("choose", "data") EXCEPT !.skip = Len(steps) + 1]>> \o steps

\* A failure anywhere in `steps` abandons the rest of them, and nothing else.
Soft(steps) ==
    [i \in DOMAIN steps |-> [steps[i] EXCEPT !.skip = IF @ = 0 THEN Len(steps) - i + 1 ELSE @]]

-----------------------------------------------------------------------------
\* store: 503 while there is no backend.
store == <<Step("store", "backend")>>

\* project: the header's project, authorized at `min`.
project(min) == <<Step("project", min)>>

\* projectTenants: project, then its tenants (a second step, which may need the
\* store).
projectTenants(min) == project(min) \o <<Step("tenants", min)>>

\* isAggregate, and the 409 of a write to one.
isAggregate == <<Step("leaf", "project")>>

\* identityFrom: the handler asks for an identity of its own.
identityFrom == <<Step("identity", "any")>>

-----------------------------------------------------------------------------
\* Parsers: an absent value has its default, a malformed one is a 400.
parseTimeRange == Param("start, end")
parseInt(name) == Param(name)
parseDurationMs(name) == Param(name)
parseCursor == Param("cursor")
parseLogCursor == Param("cursor")
parseErrorEventCursor == Param("cursor")
parseFingerprint == Param("fingerprint")
parseGroupBy == Param("groupBy")
parseScope == Param("scope")
parseLogSources == Param("source")
decodeJSON == Param("body")

\* Most reads begin the same way.
Telemetry(params) == store \o parseTimeRange \o params \o projectTenants("viewer")

-----------------------------------------------------------------------------
\* projectNamespaces and meshSnapshot: the cluster as the configuration reader
\* last saw it, narrowed for an identity without a "*" grant to the namespaces
\* its project's services run in.
projectNamespaces == store \o parseTimeRange \o projectTenants("viewer") \o Query("ServiceLabels")
meshSnapshot == <<Step("cluster", "snapshot")>>
                  \o Narrowed(projectNamespaces \o <<Step("narrow", "snapshot")>>)
===============================================================================
