---------------------------- MODULE HttpResponse ----------------------------
(***************************************************************************)
(* What class HTTP of influxdb-cxx makes of the end of a request:          *)
(* treatCurlResponse, and parseErrorMessage of Query.cxx that it calls.    *)
(*                                                                         *)
(* A response is what libcurl reports (CURLE_OK or not), the status code   *)
(* (0 when there is none), and the body, of which only its form counts.    *)
(***************************************************************************)
EXTENDS Integers

\* The forms of a body: nothing, not JSON, JSON but no object, an object, and
\* the object that answers a query whose statement failed (status 200).
Bodies == {"empty", "text", "array", "object", "statementError"}

Thrown == {"nothing", "InfluxDBException", "ConnectionError",
           "NonExistentDatabase", "BadRequest", "ServerError"}

\* parseErrorMessage returns for a JSON object, and throws for all else.
parsesErrorMessage(body) == body \in {"object", "statementError"}

\* The exception for a status, when the message in the body can be had.
errorOfStatus(code) ==
    CASE code = 404                              -> "NonExistentDatabase"
      [] code >= 400 /\ code < 500 /\ code # 404 -> "BadRequest"
      [] code >= 500                             -> "ServerError"

\* 404 is dealt with, and the rest of the 4xx forgotten.
treatServerErrors(response) ==
    CASE ~response.curlOk -> "ConnectionError"
      [] response.curlOk /\ response.code < 500 /\ response.code # 404 -> "nothing"
      [] response.curlOk /\ (response.code >= 500 \/ response.code = 404) ->
            IF parsesErrorMessage(response.body)
              THEN errorOfStatus(response.code)
              ELSE "InfluxDBException"

\* The exception treatCurlResponse throws, or "nothing".  The message is
\* parsed while the exception is being made, so a body that does not parse
\* replaces that exception by the one of parseErrorMessage.
treatCurlResponse(response) ==
    CASE ~response.curlOk -> "ConnectionError"
      [] response.curlOk /\ response.code < 400 -> "nothing"
      [] response.curlOk /\ response.code >= 400 ->
            IF parsesErrorMessage(response.body)
              THEN errorOfStatus(response.code)
              ELSE "InfluxDBException"
=============================================================================
