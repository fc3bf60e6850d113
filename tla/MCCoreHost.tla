------------------------------ MODULE MCCoreHost ------------------------------
(***************************************************************************)
(* Model checking of CoreHost: the ways config.yaml and the environment    *)
(* may be, as they bear on a start of the Core.                            *)
(***************************************************************************)
EXTENDS CoreHost, TLC

ApiFile(section) == Object([api |-> section])

MCFiles ==
    { Null,
      Garbled,
      ApiFile(Null),                                       \* an empty section
      ApiFile(Object([port |-> Number(9999)])),
      ApiFile(Object([port |-> Text("9999")])),            \* quoted
      ApiFile(Object([bind_host |-> Text("0.0.0.0")])),
      ApiFile(Object([prot |-> Number(9999)])) }           \* a field misspelt

MCEnvironments ==
    { <<>>,
      <<"api", "port">> :> Number(7777),
      <<"api", "port">> :> Text("http"),
      <<"api", "auth_token_path">> :> Text("other") }
=============================================================================
