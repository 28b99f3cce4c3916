------------------------- MODULE MCProjectLifecycle -------------------------
(***************************************************************************)
(* Instances of ProjectLifecycle: projects of every shape the scaffold can  *)
(* meet, destinations with every content that matters to the migration, and *)
(* legacy trees whose documents, manifests and damage vary one group at a   *)
(* time.                                                                    *)
(***************************************************************************)
EXTENDS ProjectLifecycle

-----------------------------------------------------------------------------
ScriptNamesM == <<"gate", "helper">>
CandidatesM == {"src", "gen", ".fv/verified-inputs.txt"}
PolicyOf(k, own, d) == [kind |-> k, own |-> own, defaults |-> d]
RouteOf(k, t, c) == [kind |-> k, target |-> t, canonical |-> c]
ConfigOf(k, e, i, p) == [kind |-> k, extension |-> e, isolation |-> i, panel |-> p]
NoConfig == ConfigOf("absent", "missing", "unset", "unset")
Bare == [scripts |-> [s \in {"gate","helper"} |-> "absent"], dispatch |-> RouteOf("absent", "none", FALSE),
         policy |-> PolicyOf("absent", {}, FALSE), config |-> NoConfig, marker |-> "absent"]
PoliciesM == {PolicyOf("absent", {}, FALSE), PolicyOf("malformed", {}, FALSE), PolicyOf("exclude", {"gen"}, FALSE),
  PolicyOf("exclude", {"gen"}, TRUE), PolicyOf("include", {"src"}, FALSE)}
RoutesM == {RouteOf("absent","none",FALSE), RouteOf("unreadable","none",FALSE), RouteOf("route","own",FALSE),
            RouteOf("route","outside",TRUE), RouteOf("route","none",TRUE), RouteOf("route","own",TRUE)}
ConfigsM == {NoConfig, ConfigOf("malformed","missing","unset","unset"), ConfigOf("mapping","odd","on","valid"),
   ConfigOf("mapping","listed","unset","invalid"), ConfigOf("mapping","missing","odd","unset"), ConfigOf("mapping","listed","on","valid")}
ProjectsM ==
  {[Bare EXCEPT !.policy = p, !.dispatch = d] : p \in PoliciesM, d \in RoutesM}
  \union {[Bare EXCEPT !.config = c, !.marker = m, !.dispatch = d] : c \in ConfigsM, m \in {"absent","omp","other"}, d \in {RouteOf("absent","none",FALSE),RouteOf("route","own",TRUE)}}
  \union {[Bare EXCEPT !.scripts = "gate" :> g @@ "helper" :> h, !.policy = p] : g \in {"absent","old"}, h \in {"old","linked","dangling"}, p \in PoliciesM}

-----------------------------------------------------------------------------
DestsM == {"dispatch", "history", "ledger"}
OrderM == <<"dispatch", "history", "ledger">>
StartsM == {[d \in DestsM |-> CASE d = "dispatch" -> x [] d = "history" -> h [] OTHER -> l] :
               x \in {"absent", "old", "work"}, h \in {"absent", "work"}, l \in {"absent", "work"}}
ModesM == {Apply, StageLedger}

-----------------------------------------------------------------------------
q == <<"quint">>
q1 == <<"quint", 1>>
pt == <<"proptest">>
pts == <<"proptests">>
LegacyLayers == {q, q1, pt, pts}
PlannedM == q :> "quint" @@ q1 :> "quint:1" @@ pt :> "proptests" @@ pts :> "proptests"
NormalM == "c1" :> "c1" @@ "c2" :> "c2" @@ "t1" :> "t1" @@ "t2" :> "t2" @@ "t-1" :> "t1" @@ "!" :> "empty"

NoCites == "intent" :> {} @@ "ledger" :> {}
Passing == Bytes("ledger") :> "passed" @@ Bytes("live") :> "passed"
Claim(targets, lays) == [wellFormed |-> TRUE, targets |-> targets, layers |-> lays]
Run(layer, n) == [layer |-> layer, segments |-> n, argv |-> TRUE]
Plain == [files |-> Roles, irregular |-> FALSE, unreadable |-> {}, malformed |-> {},
          cites |-> NoCites, present |-> {"a", "b"}, gate |-> Passing, claims |-> "c1" :> Claim({"t1"}, {q}),
          flags |-> "c1" :> TRUE, runs |-> <<Run(q, 2)>>, entries |-> {"src", "ledger", "claims"},
          fv |-> <<>>, verify |-> FALSE]

\* The documents: intent, ledger, live ledger, route, policy.
Documents ==
    {[Plain EXCEPT !.files = f, !.cites = "intent" :> ci @@ "ledger" :> cl,
                   !.gate = Bytes("ledger") :> g1 @@ Bytes("live") :> g2,
                   !.entries = e, !.fv = lv @@ dp] :
        f \in {Roles, Roles \ {"intent"}, Roles \ {"ledger"}, Roles \ {"inputs"}},
        ci \in {{}, {"a"}, {"a", "b"}}, cl \in {{}, {"b"}},
        g1 \in {"passed", "rejected"}, g2 \in {"passed", "unavailable"},
        e \in {{"src"}, {"ledger", "runs", "intent"}, {"notes", "inputs"}},
        lv \in {<<>>, LiveLedger :> Bytes("ledger"), LiveLedger :> Bytes("live")},
        dp \in {<<>>, DispatchFile :> [of |-> "route", target |-> "old"],
                DispatchFile :> [of |-> "malformed"], PlanFile :> [of |-> "another"]}}

\* Documents that cite files under .fv, there already or written by the first run.
Citing ==
    {[Plain EXCEPT !.files = f, !.cites = "intent" :> ci @@ "ledger" :> cl, !.fv = fv] :
        f \in {Roles, Roles \ {"ledger"}},
        ci \in SUBSET {"a", "gone", Intent, HistoryPath("intent")},
        cl \in {{}, {"b"}, {Intent}, {"a", Intent}},
        fv \in {<<>>, Intent :> Bytes("intent"), Intent :> Bytes("live")}}

\* The manifests: claims, flags and recorded runs.
SomeRuns == {Run(q, 1), Run(q, 2), Run(q1, 1), Run(pt, 1), Run(pts, 2),
             [Run(q, 1) EXCEPT !.argv = FALSE]}
SomeClaims == {"c1" :> Claim({"t1"}, {q}), "c1" :> Claim({"t1", "t2"}, {q, pt}),
               "c1" :> Claim({"t1"}, {q}) @@ "c2" :> Claim({"t-1"}, {pt}),
               "c1" :> Claim({"t1"}, {pts}) @@ "c2" :> Claim({"t2"}, {q1}),
               "c1" :> Claim({"!"}, {q}), "c1" :> Claim({"c1"}, {q})}
Manifests ==
    {[Plain EXCEPT !.claims = c, !.runs = r, !.flags = fl, !.files = f] :
        c \in SomeClaims, r \in SeqOf(SomeRuns, 2) \ {<<>>},
        fl \in {"c1" :> TRUE, "c2" :> FALSE},
        f \in {Roles, Roles \ {"obligations"}, Roles \ {"claims"}, Roles \ {"runs"}}}

\* Files that cannot be read or parsed, and a tree with a symlink in it.
Damaged ==
    {[Plain EXCEPT !.unreadable = u, !.malformed = m, !.irregular = i] :
        u \in {{}} \union {{r} : r \in Roles},
        m \in {{}} \union {{r} : r \in {"obligations", "claims", "runs", "inputs"}}, i \in BOOLEAN}

Verified ==
    {[Plain EXCEPT !.claims = c, !.runs = r, !.verify = TRUE] :
        c \in {"c1" :> Claim({"t1"}, {q}), "c1" :> Claim({"t1"}, {pt})},
        r \in {<<Run(q, 2), Run(pt, 1)>>, <<Run(pt, 1), Run(pts, 1), Run(q, 1)>>}}
TreesM == Documents \union Citing \union Manifests \union Damaged \union Verified
CustomsM == <<"quint", "quint:1">>

Host == [profile |-> "tested", skip |-> {}, noPlan |-> FALSE, found |-> "absent", plan |-> <<>>, fuzz |-> FALSE,
         targets |-> <<>>, seen |-> 0, cut |-> FALSE, long |-> TRUE, surfaces |-> {},
         harnesses |-> FALSE, tools |-> {}]
HostsM == {Host, [Host EXCEPT !.profile = "bounded", !.tools = {"kani"}, !.harnesses = TRUE]}

s1 == <<"s1">>
s2 == <<"s2">>
Layer(r, t) == [required |-> r, tools |-> t]
PlansM == {"types" :> Layer(FALSE, {<<"tc">>}),
           "quint" :> Layer(TRUE, {q1, q}), "quint" :> Layer(FALSE, {q}),
           "fuzz" :> Layer(TRUE, {s1}), "lean" :> Layer(FALSE, {<<"lean">>})}
CratesM ==
    {[Host EXCEPT !.profile = p, !.found = f, !.plan = pl, !.noPlan = n, !.skip = s] :
        p \in {"tested", "bounded", "proved"}, f \in {"absent", "malformed", "plan"}, pl \in PlansM, n \in BOOLEAN,
        s \in {{}, {"lints"}, {"quint"}}}
    \union
    {[Host EXCEPT !.fuzz = TRUE, !.targets = <<s1, s2>>, !.seen = k, !.cut = c, !.long = l,
                  !.surfaces = su, !.tools = t, !.profile = "bounded", !.harnesses = h,
                  !.found = f, !.plan = "fuzz" :> Layer(TRUE, {s1})] :
        k \in 0 .. 2, c \in BOOLEAN, l \in BOOLEAN, su \in {{}, {s1}, {<<"s3">>}},
        t \in {{}, {"cargo-fuzz", "kani"}}, h \in BOOLEAN, f \in {"absent", "plan"}}
=============================================================================
