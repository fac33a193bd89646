---------------------------- MODULE MCToolGateway ----------------------------
(* Two callers of two runs, in front of the map or the weather services. *)
EXTENDS ToolGateway

CONSTANTS c1, c2, r1, r2

MCCalls == {c1, c2}
MCRuns == {r1, r2}
MCRunOf == (c1 :> r1) @@ (c2 :> r2)
MCMap == [operation |-> "poi", chain |-> <<"amap", "baidu">>]
MCForecast == [operation |-> "forecast", chain |-> <<"amap_weather", "qweather">>]
MCServices == {MCMap, MCForecast}
MCMaps == {MCMap}
=============================================================================
