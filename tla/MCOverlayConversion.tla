------------------------ MODULE MCOverlayConversion ------------------------
(* Instances of OverlayConversion for TLC. *)
EXTENDS OverlayConversion

CONSTANTS json, creds, backups  \* .claude.json, .credentials.json, backups/

=============================================================================
