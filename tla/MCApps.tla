-------------------------------- MODULE MCApps --------------------------------
(***************************************************************************)
(* Instance of Apps for TLC: two or three of everything, two or three      *)
(* turns of the reader; and the feed and the reach of transit alone.       *)
(***************************************************************************)
EXTENDS Apps, TLC

MCLiveModeOf == [v1 |-> "", v2 |-> "tram", v3 |-> "bus"]
MCLiveLineOf == [v1 |-> "550", v2 |-> "7", v3 |-> ""]
MCLiveBandOf == [v1 |-> 1, v2 |-> 0, v3 |-> 2]
MCLiveAhead == {<<"7", "550">>, <<"", "7">>, <<"", "550">>}
MCBoardLineOf == [a1 |-> "7", a2 |-> "550"]
MCCompareEventsOf == [a |-> 0, b |-> 1, c |-> 1]
MCCompareAhead == {<<"a", "b">>, <<"a", "c">>, <<"b", "c">>}
MCCompareChoices == {[codes |-> {"a"}, measure |-> "aqi"]}
MCBikesSlots == [s1 |-> 10, s2 |-> 10]
MCBikesNamed == [s1 |-> 1, s2 |-> 2]
\* One station keeps its defaults, the other has inputs of its own.
MCBikesGiven == [s1 |-> "default", s2 |-> "own"]
MCBikesNear == {<<"s1", "default">>, <<"s2", "own">>}
MCAgendaEvents ==
    [e1 |-> [first |-> 1, last |-> 2, register |-> "hel", at |-> TRUE],
    e2 |-> [first |-> 0, last |-> 3, register |-> "esp", at |-> TRUE],
    e3 |-> [first |-> 0, last |-> 0, register |-> "hel", at |-> FALSE]]
MCAgendaFinds == {{"e1"}, {"e1", "e3"}}
MCDocksStations ==
    <<[bikes |-> 0, docks |-> 4, kind |-> "k", day |-> 1], [bikes |-> 3, docks |-> 2, kind |-> "m", day |-> 2],
    [bikes |-> -1, docks |-> 4, kind |-> "k", day |-> 2]>>
MCAirAirs == <<"a", "b">>
MCAirWeathers == <<"v", "w">>
MCAirNear == [a |-> "w", b |-> "v"]
MCAirMeasured == [a |-> <<"p", "q">>, b |-> <<"p">>, v |-> <<"t">>, w |-> << >>]
MCAirSilent == {<<"p", "t">>}
MCAirCodes == <<"k1", "k2">>
MCAirLinks == {"", "k1", "k0", "?"}
MCAirSaved == [station |-> "b", weather |-> "w", days |-> 1, window |-> 3, air |-> "p", variable |-> ""]
MCReachStops == <<"s1", "s2">>
MCReachAt == [s1 |-> "s", s2 |-> "c"]
MCReachNetworks == {[stops |-> 2, lines |-> {1}], [stops |-> 2, lines |-> {1, 2}]}
MCReachSamples == {[located |-> {1, 3}, routes |-> {<<2, "r">>}], [located |-> {1, 2, 3}, routes |-> {<<1, "r">>, <<3, "q">>}]}
MCNewsArticles == <<"a1", "a2", "a3", "a4">>
MCNewsPublished == [a1 |-> 1, a2 |-> 9, a3 |-> -1, a4 |-> 1]
MCNewsTitled == [w |-> {"a1", "a3"}, v |-> {}]
MCNewsTerm == [a1 |-> "t1", a2 |-> "t2", a3 |-> "t3", a4 |-> "t1"]
MCNewsNamed == <<[t1 |-> "", t2 |-> "", t3 |-> ""], [t1 |-> "n", t2 |-> "n", t3 |-> ""]>>
MCNewsLinks == {[weeks |-> "", k |-> 0, topic |-> -1, q |-> ""], [weeks |-> "5", k |-> 9, topic |-> 2, q |-> "w "]}
MCNewsSearches == {<<"w ", "w">>, <<"w", "w">>, <<"v", "v">>}
MCQualityOrder == <<"a", "b", "c">>
MCQualityKnown == <<"a", "b">>
MCQualityAll == {"a", "b", "c"}
MCQualitySchemas == {{}, MCQualityAll}
MCQualityScore == [a |-> 1, b |-> 2, c |-> 1]
MCQualityComplete == [a |-> 1, b |-> 1, c |-> 2]
MCQualityFindings == [a |-> {}, b |-> {"f", "g"}, c |-> {}]
MCQualityLinks == ("" :> "" @@ " b" :> "b")
MCQualityTexts == ("" :> {} @@ "true" :> {"text", "boolean"} @@ "1,5" :> {"text", "number"})
\* The address opened, the schema, whether nothing is resolved yet.
MCQualityOpened == {<<"", MCQualityAll, FALSE>>, <<" b", {}, TRUE>>}
MCPlanIds == <<"e1", "e2", "e3", "e4", "e5">>
MCPlanEvents ==
    [e1 |-> [first |-> 33, last |-> 35, cancelled |-> FALSE, at |-> "p"], e2 |-> [first |-> 34, last |-> 36, cancelled |-> FALSE, at |-> "q"],
    e3 |-> [first |-> 10, last |-> 80, cancelled |-> FALSE, at |-> ""], e4 |-> [first |-> 36, last |-> 38, cancelled |-> TRUE, at |-> "q"],
    e5 |-> [first |-> 50, last |-> 52, cancelled |-> FALSE, at |-> "q"]]
MCPlanNamed == [w |-> {"e1", "e5"}]
MCPlanWalks == (<<"p", "q">> :> 1 @@ <<"q", "p">> :> 1)
MCPlanLinks ==
    {[day |-> -2, q |-> "", hour |-> -2, pick |-> << >>, share |-> ""],
     [day |-> -1, q |-> "w", hour |-> 30, pick |-> <<"e1", "e3", "e5">>, share |-> "?"],
     [day |-> -2, q |-> "", hour |-> 9, pick |-> <<"e4", "e1">>, share |-> "s"]}
MCPlanShared == [s |-> [day |-> 2, picks |-> <<"e3", "e5">>]]
MCExploreGeos == [stop |-> <<"location", "area">>, plan |-> <<"location">>]
MCExplorePublished == [stop |-> "area", plan |-> "location"]
MCExploreSlots == [stop |-> {"status"}, plan |-> {}]
MCExploreLinks == {[geo |-> "", color |-> ""], [geo |-> "area", color |-> "status"]}

-----------------------------------------------------------------------------
\* The backend's feed alone, the reach of transit alone, the explorer alone.
FeedSpec == Feed!Init /\ app = "feed" /\ ExploreUnused /\ [][Feed!Next /\ UNCHANGED <<app, exploreVars>>]_appsVars
\* lib.rs:128 says that the feed is live only while the map has missed no move.
LiveMissesNothing == Feed!LiveMissesNothing
ReachSpec == Reach!Init /\ app = "reach" /\ ExploreUnused /\ [][Reach!Next /\ UNCHANGED <<app, exploreVars>>]_appsVars
\* SaveOrigin.tsx:16 says that a point is kept with the areas reached from it.
AreasOfTheirPoint == Reach!AreasOfTheirPoint
=============================================================================
