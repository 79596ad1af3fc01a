------------------------------ MODULE MCEvidence ------------------------------
(***************************************************************************)
(* What speaks for or against a finding, and how a finding is read and     *)
(* known again: coverage, persisted references, the root set, SARIF logs,  *)
(* fingerprints, one of them in each behaviour.  kind names it, and the    *)
(* others rest.                                                            *)
(***************************************************************************)
EXTENDS Coverage, Gate3f, Fingerprint, SarifInput, MCRootSet

VARIABLE kind

-----------------------------------------------------------------------------
(* Coverage.  Two files, one of them spelled with a dot, and names with    *)
(* separators and with a comma.                                            *)
VDot == <<".", "/", "a", ".", "py">>
VSub == <<"ci", "/", "b", ".", "py">>
VFiles == <<VDot, VSub>>
VFunctions == VDot :> <<<<"f">>>> @@ VSub :> <<<<"m", ".", "g">>, <<"K", "<", "V", ",", "W", ">">>>>
VControls ==
  {{}, {<<Line("symbol", <<"g">>)>>},
   {<<Line("symbol", <<"f">>), Line("min-called-functions", <<"2">>)>>},
   {<<Line("symbol", <<"g">>), Line("sybmol", <<"g">>)>>}}
VPath(name) == [kind |-> "Path", name |-> name]
VSymbol(name) == [kind |-> "Symbol", name |-> name]
VClaims ==
  {<<VPath(<<".", "/", "a", ".", "py">>), VPath(<<"b", ".", "py">>), VSymbol(<<"f">>), VSymbol(<<"g">>),
     VSymbol(<<"x", ".", "m", ".", "g">>), VSymbol(<<"mg">>), VSymbol(<<"W", ">">>)>>}

-----------------------------------------------------------------------------
(* Gate 3f.  A job that may import a framework, declare one or export a    *)
(* symbol; a directory that may be a worktree; a link; a manifest.         *)
FFile(lines) == [Thing("file") EXCEPT !.lines = lines]
FUnread == [Thing("file") EXCEPT !.readable = FALSE]
FLink(leads, target) == [Thing("link") EXCEPT !.leads = leads, !.target = target]
FDir(git) == [Thing("dir") EXCEPT !.marks = [NoMarks EXCEPT !.git = git]]
FJob == <<"a", "/", "job", ".", "py">>
FPy == <<"p", ".", "py">>
FRequirements == <<"requirements", ".", "txt">>
FMay ==
  <<"a">> :> {FDir("none"), FDir("file")}
  @@ FJob :> {
       FFile(<<>>), FUnread,
       FFile(<<<<"from", ".", "celery_app", "import", "app">>>>),
       FFile(<<<<"import", "torque">>, <<"@", "Celery", ".", "task">>>>),
       FFile(<<<<"#[no_mangle]">>, <<"f">>, <<"}">>, <<"}">>, <<"g">>>>),
       FFile(<<<<"#[no_mangle]">>, <<>>, <<"f">>>>),
       FFile(<<<<"readObjectFrom">>, <<"#[derive(", "Debug", "Serialize">>>>),
       FFile(<<<<"x", "pickle", ".", "load">>, <<"from", "rq">>>>)}
  @@ <<"l">> :> {Thing("none"), FLink("inside", <<"a">>), FLink("inside", <<"a", "/", "b">>),
                 FLink("outside", <<>>)}
  @@ FPy :> {Thing("none"), FFile(<<<<"import", "rq">>>>), FFile(<<<<"x", "rq">>>>)}
  @@ FRequirements :> {Thing("none"), FFile(<<<<"celery", "5">>>>), FUnread, FLink("file", <<>>)}
FPaths == <<<<"a">>, FJob, <<"l">>, FPy, FRequirements>>
FTrees == {t \in [Range(FPaths) -> UNION Range(FMay)] : \A p \in DOMAIN t : t[p] \in FMay[p]}
FComponents == [celery_app |-> {"celery", "app"}, torque |-> {"torque"}]
FSymbol(name, file) == [kind |-> "Symbol", name |-> name, file |-> file]
FWhole == [kind |-> "Path", name |-> "none", file |-> {FJob}]
FClaims ==
  {<<FWhole, FSymbol("f", {FJob}), FSymbol("g", {FJob}), FSymbol("h", {})>>,
   <<FSymbol("f", {FJob}), FWhole>>}
FLower == [Celery |-> "celery", X |-> "x"]

-----------------------------------------------------------------------------
(* Fingerprints.  Two machines, and a message in which everything that may *)
(* change from run to run occurs.                                          *)
IKind ==
  [x \in {"12", "400", "45", "3200", "512"} |-> "integer"]
    @@ [x \in {"/home/ci", "/Users/me"} |-> "absolute"] @@ [x \in {"450ms", "1.2s"} |-> "duration"]
    @@ [x \in {"(", ")", ",", ".", ":"} |-> "punctuation"] @@ "2.5" :> "decimal"
Machines == {[root |-> "/home/ci", took |-> "45", ran |-> "1.2s"],
             [root |-> "/Users/me", took |-> "2.5", ran |-> "450ms"]}
IWorlds == {[root |-> m.root, took |-> m.took, ran |-> m.ran, line |-> l, blob |-> b] :
              m \in Machines, l \in {"12", "400"}, b \in {"b1", "b2"}}
Item(type, text) == [kind |-> type, text |-> text]
Word(text) == Item("word", text)
Reported(symbol, items) == [rule |-> "F401", uri |-> "src/a.py", symbol |-> symbol, items |-> items]
Unused == <<Item("relative", "src/a.py"), Word("unused"), Item("took", ""), Word("in"), Item("lasted", "")>>
IFindings ==
  {Reported({"Widget"}, Unused), Reported({}, Unused), Reported({""}, <<Item("file", "a.py"), Item("position", "")>>),
   Reported({}, <<Word("512"), Word("files"), Item("position", "")>>),
   Reported({}, <<Word("45"), Word("files"), Item("position", "")>>)}

-----------------------------------------------------------------------------
(* SARIF.  What a producer means, and the ways it may spell it.            *)
SRules == <<[id |-> {"R1"}, level |-> {"error"}], [id |-> {"R2"}, level |-> {}],
            [id |-> {}, level |-> {"note"}]>>
SArtifacts == <<[uri |-> {"a.py"}, roles |-> {"analysisTarget"}], [uri |-> {"b.py"}, roles |-> {}]>>
SInline(uri) == [uri |-> {uri}, index |-> {}]
SIndexed(i) == [uri |-> {}, index |-> {i}]
SWire(invocations, artifacts, result) ==
  [driver |-> TRUE, name |-> {"tool"}, rules |-> SRules, artifacts |-> artifacts,
   invocations |-> invocations, results |-> <<result>>]
SResult(rule, locations, suppressions) ==
  [ruleId |-> rule.id, ruleIndex |-> rule.ix, level |-> rule.lv, text |-> {"t"},
   locations |-> locations, state |-> {}, suppressions |-> suppressions]
SRan(success, notified) == [success |-> success, notified |-> notified]
SNotified(level, text) == [level |-> level, text |-> text]
SInvocations ==
  {[wire |-> <<SRan({"true"}, <<>>)>>, ok |-> <<"true">>, warned |-> FALSE],
   [wire |-> <<SRan({}, <<>>)>>, ok |-> <<"false">>, warned |-> FALSE],
   [wire |-> <<SRan({"true"}, <<SNotified({}, {"t"})>>), SRan({"false"}, <<SNotified({"note"}, {"t"})>>)>>,
    ok |-> <<"true", "false">>, warned |-> TRUE],
   [wire |-> <<SRan({"true"}, <<SNotified({"note"}, {})>>)>>, ok |-> <<"refused">>, warned |-> FALSE]}
SRule(id, ix, lv, rule, level) == [id |-> id, ix |-> ix, lv |-> lv, rule |-> rule, level |-> level]
SSpellings ==
  {SRule({"R1"}, {}, {}, "R1", "error"), SRule({}, {0}, {}, "R1", "error"),
   SRule({"R2"}, {}, {}, "R2", "warning"), SRule({}, {1}, {"none"}, "R2", "none"),
   SRule({"R9"}, {2}, {}, "R9", "note"), SRule({"R2"}, {0}, {}, "R2", "error"),
   SRule({}, {2}, {}, "refused", ""), SRule({"R1"}, {3}, {}, "refused", ""),
   SRule({}, {}, {}, "refused", "")}
SLocations ==
  {[wire |-> <<SInline("b.py")>>, uris |-> <<"b.py">>], [wire |-> <<SIndexed(1)>>, uris |-> <<"b.py">>],
   [wire |-> <<[uri |-> {"a.py"}, index |-> {1}]>>, uris |-> <<"a.py">>], [wire |-> <<>>, uris |-> <<>>],
   [wire |-> <<SInline("C:/a.py")>>, uris |-> <<"refused">>],
   [wire |-> <<SIndexed(2)>>, uris |-> <<"refused">>],
   [wire |-> <<[uri |-> {}, index |-> {}]>>, uris |-> <<"refused">>]}
SReview(status) == [kind |-> "external", status |-> status]
SReviews ==
  {[wire |-> <<>>, says |-> "no"], [wire |-> <<SReview({"accepted"})>>, says |-> "yes"],
   [wire |-> <<SReview({"underReview"})>>, says |-> "no"], [wire |-> <<SReview({})>>, says |-> "refused"]}
SMeant(ok, warned, targets, rule, level, uris, accepted) ==
  {[ok |-> ok, warned |-> warned, targets |-> targets,
    results |-> <<[rule |-> rule, level |-> level, uris |-> uris, accepted |-> accepted]>>]}
SLogs ==
  {[wire |-> SWire(i.wire, SArtifacts, SResult(r, l.wire, s.wire)),
    meant |-> IF \/ i.ok = <<"refused">> \/ r.rule = "refused"
                 \/ l.uris = <<"refused">> \/ s.says = "refused" THEN {}
              ELSE SMeant(i.ok, i.warned, {"a.py"}, r.rule, r.level, l.uris, s.says = "yes")] :
     i \in SInvocations, r \in SSpellings, l \in SLocations, s \in SReviews}
  \cup {[wire |-> SWire(<<SRan({"true"}, <<>>)>>, <<>>,
                    SResult(SRule({"R1"}, {}, {}, "R1", "error"), <<SInline("a.py")>>, <<>>)),
         meant |-> SMeant(<<"true">>, FALSE, {}, "R1", "error", <<"a.py">>, FALSE)]}

-----------------------------------------------------------------------------
(* Where a component rests.                                                *)
SomeCheckout == CHOOSE c \in RCheckouts : TRUE
SomeTree == CHOOSE t \in FTrees : TRUE
SomeWorld == CHOOSE w \in IWorlds : TRUE

MCInit ==
  /\ kind \in {"coverage", "3f", "roots", "fingerprint", "sarif"}
  /\ CovInit /\ SarifInit /\ aux_moved = {} /\ gate3f = New3f /\ reported = <<>>
  /\ rooted = NewRoots
  /\ checkout \in IF kind = "roots" THEN Checkouts ELSE {SomeCheckout}
  /\ tree \in IF kind = "3f" THEN FTrees ELSE {SomeTree}
  /\ world \in IF kind = "fingerprint" THEN IWorlds ELSE {SomeWorld}

Keeps(vars) == UNCHANGED vars /\ UNCHANGED kind

MCNext ==
  \/ kind = "coverage" /\ CovNext /\ Keeps(<<gate3fVars, rootVars, idVars, sarif>>)
  \/ kind = "3f" /\ Next3f /\ Keeps(<<covVars, rootVars, idVars, sarif>>)
  \/ kind = "roots" /\ RootNext /\ Keeps(<<covVars, gate3fVars, idVars, sarif>>)
  \/ kind = "fingerprint" /\ IdNext /\ Keeps(<<covVars, gate3fVars, rootVars, sarif>>)
  \/ kind = "sarif" /\ SarifNext /\ Keeps(<<covVars, gate3fVars, rootVars, idVars>>)

(* What a behaviour can change is what the variables of its kind are; once *)
(* an artifact was read, it does not matter what CI makes of it.           *)
View ==
  <<kind, CASE kind = "coverage" -> IF layer.pc \in {"judge", "done"} THEN <<layer>> ELSE covVars
            [] kind = "3f" -> gate3fVars [] kind = "roots" -> rootVars
            [] kind = "fingerprint" -> idVars [] kind = "sarif" -> sarif>>

MCSpec == MCInit /\ [][MCNext]_<<kind, covVars, gate3fVars, rootVars, idVars, sarif>>
=============================================================================
