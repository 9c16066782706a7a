-------------------------------- MODULE Admin --------------------------------
(***************************************************************************)
(* One command of an admin package on its way through                      *)
(* internal/commands/commands.go to the manager or monitor and back, and   *)
(* the error the caller gets.  The server may execute the command and the  *)
(* reply be an error all the same; a reply is else what the server likes.  *)
(***************************************************************************)
EXTENDS AdminCalls

VARIABLES
    step,       \* "send", "serve", "parse", "done"
    conn,       \* whether the admin object has a connection
    pipeline,   \* what the command makes of its reply
    executed,   \* whether the server has carried it out (external)
    r,          \* the response
    out         \* the error returned

cmdVars == <<step, conn, pipeline, executed, r, out>>

NoReply == [err |-> "nil", status |-> "", body |-> ""]

CmdInit ==
    /\ step = "send" /\ conn \in BOOLEAN /\ pipeline \in Pipelines
    /\ executed = FALSE /\ r = NoReply /\ out = "none"

(* The arguments of blocklist operations and of smb resources are checked  *)
(* before anything is sent.                                                *)
Refuse ==
    /\ step = "send" /\ pipeline \in {"end", "apply", "pick"}
    /\ step' = "done" /\ out' = "invalid"
    /\ UNCHANGED <<conn, pipeline, executed, r>>

(* A command with a number JSON has no text for: FSQuiesce ("object") and  *)
(* OSDBlocklistAdd ("end") write theirs themselves, NaN too.  No other     *)
(* command has fields that json.Marshal refuses.                           *)
MarshalFails ==
    /\ step = "send" /\ pipeline \in {"object", "end"}
    /\ step' = "parse" /\ r' = [NoReply EXCEPT !.err = "marshal"]
    /\ UNCHANGED <<conn, pipeline, executed, out>>

(* validate of RawMgrCommand and the like, after json.Marshal.             *)
Send ==
    /\ step = "send"
    /\ IF conn THEN step' = "serve" /\ UNCHANGED r
               ELSE step' = "parse" /\ r' = [NoReply EXCEPT !.err = "ErrNotConnected"]
    /\ UNCHANGED <<conn, pipeline, executed, out>>

Serve ==
    /\ step = "serve" /\ step' = "parse"
    /\ r' \in Reply
    /\ executed' \in BOOLEAN /\ (r'.err = "nil" => executed')
    /\ UNCHANGED <<conn, pipeline, out>>

Parse ==
    /\ step = "parse" /\ step' = "done"
    /\ out' = Outcome(pipeline, r)
    /\ UNCHANGED <<conn, pipeline, executed, r>>

CmdNext == Refuse \/ MarshalFails \/ Send \/ Serve \/ Parse

CmdSpec == CmdInit /\ [][CmdNext]_cmdVars

----------------------------------------------------------------------------
(* A status that no step of the pipeline has filtered, and the body given   *)
(* to a command that returns none.                                         *)
StatusLeft ==
    CASE pipeline = "deprecated" -> r.status \notin {"", "deprecated"}
      [] pipeline = "dump"       -> r.status \notin {"", "dumped"}
      [] OTHER                   -> r.status # ""

BodyLeft ==
    CASE pipeline \in {"noData", "deprecated", "clone", "end"} -> r.body # ""
      [] pipeline = "deleted"   -> r.body \notin {"", "deleted"}
      [] pipeline = "emptyBody" -> r.body \notin {"", "{}"}
      [] OTHER                  -> FALSE

(* A command that returns no error has been carried out without one, and    *)
(* what the server has said beside that has been looked at.  There are two *)
(* exceptions: the commands of the blocklist ("blocklist", "end") look at  *)
(* no status, and those that change it at no body; and parsePathResponse   *)
(* ("path") finds the status and does not tell (StatusOfPathIsTold).       *)
NilMeansDone ==
    out = "nil" =>
        /\ executed /\ r.err = "nil"
        /\ StatusLeft => pipeline \in {"blocklist", "end", "path"}
        /\ BodyLeft => pipeline = "end"

(* NotImplementedError "in the case that an API call is not available in   *)
(* the version of Ceph that is running": a server that does not know a     *)
(* command is told from one that refuses it, through whatever pipeline its *)
(* reply goes; and a caller without a connection learns that, if there was *)
(* a command to send.                                                      *)
RefusalsAreTold ==
    step = "done" /\ out # "invalid" =>
        /\ r.err = "einval" /\ r.status = "missing" => out = "NotImplementedError"
        /\ ~conn => out = IF r.err = "marshal" THEN "marshal" ELSE "ErrNotConnected"

----------------------------------------------------------------------------
(* What a comment of cephfs/admin says and the code does not do.           *)

(* "returns a cleaned up path from requests that get a path unless an error *)
(* is encountered, then an error is returned" (fsadmin.go:85): the text    *)
(* that NoStatus takes for an error is told to the caller.                 *)
StatusOfPathIsTold == pipeline = "path" /\ StatusLeft => out # "nil"
=============================================================================
