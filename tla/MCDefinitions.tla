--------------------------- MODULE MCDefinitions ---------------------------
(* Definitions for TLC: the rows to begin with, what is asked for and imported. *)
EXTENDS Definitions, TLC

CONSTANTS sv1, sv2, pr1, pr2, ep1, n1, n2, n3, o1, o2, tag, k1, k2

Plain == <<"has", "(", tag, ")">>
\* Accepts every item; it would not if `and` did not bind tighter than `or`.
Tight == <<"has", "(", tag, ")", "or", "not", "has", "(", tag, ")", "and", "not", "has", "(", tag, ")">>
Open == <<"has", "(", tag, ")", "and">>
SomeTexts ==
  LET n == <<"not", "(">> \o Plain \o <<")">>
      both == <<"(">> \o n \o <<")", "and", "(">> \o n \o <<")">>
  IN {Plain, Tight, Open, <<"(">> \o Plain \o <<")", "or", "(">> \o both \o <<")">>}

Svc(o, os) == [origin |-> o, allowlist |-> os, limit |-> None]
Call(s, acc, ts, shape) == [service |-> s, access |-> acc, tags |-> ts, shape |-> shape]
Scr(cs, ts) == [callable |-> cs, tags |-> ts, calls |-> None, fixed |-> FALSE, shape |-> "good"]
Ep(ceil, as, sc) == [expr |-> Plain, ceiling |-> ceil, aliases |-> as, scope |-> sc, shape |-> "good"]
Prov(s, o, k) == [service |-> s, bound |-> o, secret |-> k]
As(n, kind, slug) == [name |-> n, kind |-> kind, slug |-> slug]

\* Service sv1 with provider pr1, a call n1 and a script n2 of it, an endpoint that
\* selects both and names the call n3; and a service sv2 with a provider and nothing else.
FirstRows ==
  [Empty EXCEPT !.services[sv1] = Svc(o1, {o1}), !.services[sv2] = Svc(o2, {o2}),
                !.providers[pr1] = Prov(sv1, o1, k1), !.providers[pr2] = Prov(sv2, o2, Env),
                !.api_calls[n1] = Call(sv1, "read", {tag}, "good"),
                !.scripts[n2] = Scr({n1}, {tag}),
                !.endpoints[ep1] = Ep("read", {As(n3, "api_calls", n1)}, {pr1, pr2})]

Ask(by, table, verb, slug, def) ==
  [by |-> by, change |-> [table |-> table, verb |-> verb, slug |-> slug, def |-> def]]

SomeChanges ==
  {Ask("control", "services", "delete", sv2, None),
   Ask("control", "services", "update", sv1, Svc(o2, {o1, o2})),
   Ask("control", "services", "update", sv1, Svc(o2, {o1})),
   Ask("control", "services", "delete", sv1, None),
   Ask("control", "api_calls", "create", n2, Call(sv1, "read", {tag}, "good")),
   Ask("control", "api_calls", "create", n1, Call(sv2, "read", {}, "good")),
   Ask("control", "api_calls", "update", n1, Call(sv1, "write", {tag}, "good")),
   Ask("control", "api_calls", "update", n1, Call(sv1, "read", {}, "good")),
   Ask("api", "api_calls", "update", n1, Call(sv1, "read", {tag}, "invalid")),
   Ask("control", "api_calls", "delete", n1, None),
   Ask("control", "scripts", "update", n2, [Scr({}, {}) EXCEPT !.fixed = TRUE, !.calls = Half]),
   Ask("control", "scripts", "delete", n2, None),
   Ask("api", "endpoints", "update", ep1, Ep("write", {As(n2, "api_calls", n1)}, {})),
   Ask("control", "endpoints", "update", ep1, [Ep("write", {}, {}) EXCEPT !.expr = Tight]),
   Ask("control", "endpoints", "create", ep1, Ep("read", {As(n1, "scripts", n2)}, {pr1})),
   Ask("api", "endpoints", "delete", ep1, None),
   Ask("api", "endpoints", "create", ep1, [Ep("read", {}, {}) EXCEPT !.expr = Open]),
   Ask("api", "scripts", "create", n1, [Scr({}, {}) EXCEPT !.shape = "unstorable"]),
   Ask("api", "providers", "create", pr1, Prov(sv1, o1, k2)),
   Ask("api", "providers", "update", pr1, Prov(sv1, o1, None)),
   Ask("api", "providers", "update", pr1, Prov(sv1, o2, k2)),
   Ask("api", "providers", "delete", pr1, None)}

\* The definitions to begin with, with an origin changed and a script added; and a
\* call of the same slug under another service, which the store refuses half way; and a
\* script that validates and is refused.
SomePacks ==
  {[Snapshot(FirstRows) EXCEPT !.services[sv1] = [Svc(o2, {o1, o2}) EXCEPT !.limit = 0],
                            !.scripts[n1] = [Scr({n1}, {}) EXCEPT !.fixed = TRUE],
                            !.endpoints[ep1] = Ep("read", {}, {})],
   [Snapshot(Empty) EXCEPT !.services[sv2] = Svc(o2, {o2}),
                           !.api_calls[n1] = Call(sv2, "read", {tag}, "good"),
                           !.scripts[n1] = Scr({n1}, {tag})],
   [Snapshot(Empty) EXCEPT !.services[sv2] = [Svc(o2, {o2}) EXCEPT !.limit = 0],
                           !.scripts[n1] = [Scr({}, {tag}) EXCEPT !.shape = "unconvertible"]]}

\* What is proved of every text, evaluated on these.
ASSUME PrintingIsStable

Symmetry == Permutations(Tasks)
=============================================================================
