--------------------------- MODULE MCSyslogSender ---------------------------
(* Small instances of the syslog sender.                                   *)
EXTENDS SyslogSender, TLC

(* With a message of full length the header of RFC 5424, whose names are   *)
(* too long, overflows the buffer and the other fills it.                  *)
Header == (TRUE :> 3) @@ (FALSE :> 2)
Texts == <<0, 2, 1>>

(* Two messages in the same second and one in the next; one on the second. *)
Times == <<1005, 1050, 2000>>
=============================================================================
