------------------------------ MODULE MCApiProcess ------------------------------
(***************************************************************************)
(* Environments for checking ApiProcess: enough values to take every       *)
(* branch of config.go, among them lists of brokers that name none.        *)
(***************************************************************************)
EXTENDS ApiProcess

Local ==
    [ENVIRONMENT : {"local"}, ENABLE_TRACING : {"perhaps"},
     KAFKA_BROKERS : {<<>>, <<" ", ",">>, <<",", "b", " ">>}]

\* Outside local mode tracing is refused in two spellings, or what is given is no
\* Boolean; the brokers are there to be ignored.
Cloud ==
    [ENVIRONMENT : {""}, ENABLE_TRACING : {"perhaps", "0", "FALSE"},
     KAFKA_BROKERS : {<<"b">>}]

MCEnvironments == Local \cup Cloud
=============================================================================
