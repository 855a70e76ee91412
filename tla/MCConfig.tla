-------------------------------- MODULE MCConfig --------------------------------
(* The template's lines, three of its keys in [DEFAULT] as well, and lines  *)
(* of the operator's own in one of its sections and in one that is not.     *)
EXTENDS ConfigFile

MCEdits ==
    {"DEFAULT"} \X {"AcPosition", "Host", "AdvertiseIp"}
    \cup {<<"ONPREMISE", "Host">>, <<"VRM_TUNNEL", "Enabled">>,
          <<"VRM_TUNNEL", "AdvertiseIp">>,
          <<"VRM_TUNNEL", "Own">>, <<"OWN", "Own">>}
=================================================================================
