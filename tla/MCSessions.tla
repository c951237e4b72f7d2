----------------------------- MODULE MCSessions -----------------------------
(***************************************************************************)
(* The instance of Sessions for TLC. The first connection comes at time 0    *)
(* and may be of any kind (pop3Handler is ftpHandler and handleLightning-  *)
(* Conn is bannerHandler as far as the model goes); a second one comes     *)
(* beside the kinds with which it shares more than the slots.              *)
(***************************************************************************)
EXTENDS Sessions

Beside == {"vnc", "https"}
MCKinds ==
    [c \in Conn |-> IF c = "c1" THEN (TcpKinds \ {"pop3", "lightning"}) \cup {"http", "https"}
                    ELSE {"vnc", "minecraft"}]

SessFinished ==
    /\ now = MaxTime \/ \A c \in Conn : conn[c].at = "closed"
    /\ UNCHANGED sessVars

MCSessNext ==
    \/ /\ SessNext
       /\ conn["c1"].at = "idle" /\ now > 0 => conn'["c1"].at = "idle"
       /\ conn["c1"].d.kind \notin Beside => \A c \in Conn \ {"c1"} : conn'[c].at = "idle"
    \/ SessFinished

=============================================================================
