----------------------------- MODULE SmtpMailMC -----------------------------
(* Values for SmtpMail.cfg: a path of each kind and files around the end   *)
(* of a line and of a block, with a zero byte, a byte above 127 and a      *)
(* percent sign.                                                           *)
EXTENDS SmtpMail

MCPaths == {[dir |-> TRUE, name |-> "a.html", type |-> "html"],
            [dir |-> FALSE, name |-> "b", type |-> ""]}
MCContents == {<<>>, <<37, 1, 63, 62>>, <<255, 0, 137, 47, 126>>}
=============================================================================
