--------------------------- MODULE ProviderAdapters ---------------------------
(***************************************************************************)
(* How the adapters of the map and weather services classify what the     *)
(* service answered.  An answer stands for a class of HTTP outcomes:       *)
(*   timeout, unreachable        no response (httpx errors)                *)
(*   http_400 .. http_503        a status; 502 and 504 are as 503          *)
(*   not_json, not_object        a body that is not a JSON object          *)
(*   code_key, code_permission, code_quota, code_rate, code_busy,          *)
(*   code_parameter, code_other  an error code inside a body with status   *)
(*                               200                                       *)
(*   code_text                   an error code that is not a number        *)
(*   shape                       a body without the lists needed           *)
(*   bad_item, bad_detail        an item that lacks a required field, or    *)
(*                               has an optional one that cannot be read   *)
(*   nothing, good               a valid body, without and with results    *)
(***************************************************************************)
EXTENDS TLC

Adapters == {"amap", "amap_weather", "baidu", "qweather"}
Operations == {"poi", "route", "location", "forecast"}

Categories == {"timeout", "connection", "rate_limit", "authentication",
               "permission", "invalid_request", "invalid_response",
               "upstream_unavailable"}

\* A ToolProviderError, by its category and whether it may be retried; an
\* exception of another class is a Crash, and no error at all is Fine.
ProviderError == [category : Categories, retryable : BOOLEAN]
Retryable(category) == [category |-> category, retryable |-> TRUE]
Final(category) == [category |-> category, retryable |-> FALSE]
Crash == [category |-> "crash", retryable |-> FALSE]
Fine == [category |-> "none", retryable |-> FALSE]

ClientErrors ==
    [timeout |-> Retryable("timeout"),
     unreachable |-> Retryable("connection"),
     http_429 |-> Retryable("rate_limit")]

AMapHttp ==
    [http_401 |-> Final("authentication"),
     http_403 |-> Final("permission"),
     http_400 |-> Final("invalid_request"),
     http_500 |-> Final("invalid_request"),
     http_503 |-> Retryable("upstream_unavailable")]

\* The daily quota is a rate limit that may not be retried.
AMapCodes ==
    [code_key |-> Final("authentication"),
     code_permission |-> Final("permission"),
     code_quota |-> Final("rate_limit"),
     code_rate |-> Retryable("rate_limit"),
     code_busy |-> Retryable("upstream_unavailable"),
     code_parameter |-> Final("invalid_request"),
     code_other |-> Final("invalid_request"),
     code_text |-> Final("invalid_request")]

AMapErrors ==
    ClientErrors @@ AMapHttp @@ AMapCodes @@
    [s \in {"not_json", "not_object"} |-> Final("invalid_response")]

\* Every status except 429 is an upstream failure, whatever it says.
BaiduHttp == [s \in {"http_401", "http_403", "http_400", "http_500", "http_503"} |->
                Retryable("upstream_unavailable")]

BaiduCodes ==
    [code_key |-> Final("authentication"),
     code_permission |-> Retryable("upstream_unavailable"),
     code_quota |-> Retryable("rate_limit"),
     code_rate |-> Retryable("rate_limit"),
     code_busy |-> Retryable("upstream_unavailable"),
     code_parameter |-> Final("invalid_request"),
     code_other |-> Retryable("invalid_response")]

\* The code is converted by int(), which is outside the try block.
BaiduErrors ==
    ClientErrors @@ BaiduHttp @@ BaiduCodes @@ [code_text |-> Crash] @@
    [s \in {"not_json", "not_object"} |-> Retryable("invalid_response")]

QWeatherErrors ==
    [s \in {"http_401", "http_403", "code_key", "code_permission"} |->
        Final("authentication")] @@
    [s \in {"http_400", "http_500", "http_503", "code_busy", "code_parameter",
            "code_other", "code_text"} |-> Retryable("upstream_unavailable")] @@
    [s \in {"unreachable", "not_json", "not_object"} |->
        Retryable("invalid_response")] @@
    [s \in {"http_429", "code_quota", "code_rate"} |-> Retryable("rate_limit")] @@
    [timeout |-> Retryable("timeout")]

RequestErrors == [amap |-> AMapErrors, amap_weather |-> AMapErrors,
                  baidu |-> BaiduErrors, qweather |-> QWeatherErrors]

Bodies == {"good", "nothing", "shape", "bad_item", "bad_detail"}

\* The normalisers of each operation, on a body that passed the client.  A
\* detail that cannot be read (hours, prices) is left out; an item that lacks
\* a required field spoils the answer of AMap, and is skipped by the others.
AMapItem == Final("invalid_response")
AMapDetail == Fine
AMapPOI(body) ==
    CASE body = "shape" -> Final("invalid_response")
      [] body = "bad_item" -> AMapItem
      [] body = "bad_detail" -> AMapDetail
      [] OTHER -> Fine

AMapRoute(body) ==
    IF body \in {"shape", "nothing", "bad_item"} THEN Final("invalid_response") ELSE Fine

\* A location must be unique; a forecast may have no day of the trip.
AMapLocation(body) ==
    CASE body = "shape" -> Final("invalid_response")
      [] body \in {"nothing", "bad_item"} -> Final("invalid_request")
      [] OTHER -> Fine
AMapForecast(body) == IF body = "shape" THEN Final("invalid_response") ELSE Fine

BaiduPOI(body) == IF body = "shape" THEN Retryable("invalid_response") ELSE Fine
BaiduRoute(body) ==
    IF body \in {"shape", "nothing", "bad_item"} THEN Retryable("invalid_response") ELSE Fine

QWeatherLocation(body) ==
    IF body \in {"shape", "nothing", "bad_item"} THEN Retryable("invalid_response") ELSE Fine
QWeatherForecast(body) == IF body = "shape" THEN Retryable("invalid_response") ELSE Fine

Normalised(adapter, operation, body) ==
    CASE adapter = "amap" ->
            IF operation = "poi" THEN AMapPOI(body) ELSE AMapRoute(body)
      [] adapter = "amap_weather" ->
            IF operation = "location" THEN AMapLocation(body) ELSE AMapForecast(body)
      [] adapter = "baidu" ->
            IF operation = "poi" THEN BaiduPOI(body) ELSE BaiduRoute(body)
      [] adapter = "qweather" ->
            IF operation = "location" THEN QWeatherLocation(body) ELSE QWeatherForecast(body)

ErrorOf(adapter, operation, answer) ==
    IF answer \in Bodies THEN Normalised(adapter, operation, answer)
    ELSE RequestErrors[adapter][answer]
=============================================================================
