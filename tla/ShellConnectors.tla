---------------------------- MODULE ShellConnectors ----------------------------
(***************************************************************************)
(* One ssh_run or winrm_run: src/actions/connectors/{ssh,winrm}/ and the   *)
(* command policy they share.  The connector, the engine's deadline, the   *)
(* host and the network each take steps.  SSH is one connection and one    *)
(* exec channel; WinRM is up to six SOAP exchanges which, under negotiate, *)
(* must all travel the socket the NTLM handshake authenticated.            *)
(***************************************************************************)
EXTENDS Integers

CONSTANTS
  ShellDocument,  \* the documents an operator may submit
  ShellCommand    \* the commands an agent may ask for
ASSUME ShellAssumption ==
  ShellCommand \subseteq [long : BOOLEAN, breaks : BOOLEAN, meta : BOOLEAN, listed : BOOLEAN, stdin : BOOLEAN]
ASSUME ShellDocumentAssumption ==
  \A d \in ShellDocument :
    /\ d.kind \in {"ssh", "winrm"} /\ d.hostKey \in {"pinned", "unparsed"}
    /\ d.kind = "winrm" => d.auth \in {"basic", "negotiate"}

VARIABLES
  shellDoc,   \* the target's document
  ask,        \* the call's command
  runAt,      \* where the connector is
  replied,    \* what the agent was answered, "nothing" until then
  late,       \* the policy timeout elapsed
  problem,    \* the failure the connector found, or "none"
  socket,     \* "none", "open" or "authenticated"
  security,   \* winrm: the session key of a finished handshake
  exchange,   \* winrm: "ready", "posted", or the host's answer to the exchange
  offered,    \* what crossed the network: subset of {"secret", "clear", "sealed"}
  remote,     \* the command at the host: "none", "running", "ended", "killed"
  shell,      \* winrm: the shell at the host: "none", "live", "deleted"
  broken      \* the network failed under the call

shellVars == <<shellDoc, ask, runAt, replied, late, problem, socket, security, exchange, offered, remote, shell, broken>>
host == <<remote, shell>>
session == <<socket, security, exchange, offered>>
shellAsked == <<shellDoc, ask>>

(* Documents a save accepts. *)
CommandPolicyHolds(d) == d.any # d.patterns
PinNeedsTls(d) == d.pin => d.tls
AuthAny(d) == TRUE
AuthHolds(d) == d.auth = "basic" => d.tls
ShellSavable(d) ==
  /\ CommandPolicyHolds(d)
  /\ d.kind = "winrm" => PinNeedsTls(d) /\ AuthHolds(d)
  /\ d.kind = "ssh" => d.hostKey # "unparsed"

(* Which commands a target takes; pattern matching is ActionRules' subject. *)
RefusalPatternsFirst(d, c) ==
  IF c.long THEN "command_size"
    ELSE IF d.any THEN IF d.allowAny THEN "none" ELSE "command"
    ELSE IF c.listed THEN "none"
    ELSE "command"
Refusal(d, c) ==
  IF c.long THEN "command_size"
    ELSE IF d.any THEN IF d.allowAny THEN "none" ELSE "command"
    ELSE IF c.breaks THEN "command"
    ELSE IF c.meta THEN "command_metacharacter"
    ELSE IF c.listed THEN "none"
    ELSE "command"

(* The key or certificate a host presents, against what the target pins. *)
IsPinnedAny(d, presented) == TRUE
IsPinned(d, presented) == presented = d.hostKey
CertificateHolds(d, presented) == ~d.tls \/ (IF d.pin THEN presented = "pinned" ELSE presented = "store")

ShellInit ==
  /\ shellDoc \in {d \in ShellDocument : ShellSavable(d)} /\ ask \in ShellCommand
  /\ runAt = "idle" /\ replied = "nothing" /\ late = FALSE /\ problem = "none"
  /\ socket = "none" /\ security = FALSE /\ exchange = "ready" /\ offered = {}
  /\ remote = "none" /\ shell = "none" /\ broken = FALSE

Reply(outcome) == replied' = IF replied = "nothing" THEN outcome ELSE replied
At(step) == runAt' = step

ShellArrive ==
  /\ runAt = "idle"
  /\ \E held \in BOOLEAN :
       IF Refusal(shellDoc, ask) # "none" THEN At("done") /\ Reply("policy_denied")
         ELSE IF ~held THEN At("done") /\ Reply("credential_unavailable")
         ELSE At(IF shellDoc.kind = "ssh" THEN "keys" ELSE "create") /\ UNCHANGED replied
  /\ UNCHANGED <<shellAsked, late, problem, session, host, broken>>

----------------------------------------------------------------------------
(* SSH *)

(* The key exchange: the credential is offered only to the pinned key. *)
ConnectFailure(level) ==
  CASE level = "client-authentication" -> "authentication_failed"
    [] level = "client-timeout" -> "timeout"
    [] OTHER -> "connection_failed"
SshFails(outcome) == problem' = outcome /\ Reply(outcome) /\ At("done") /\ socket' = "none"
SshKeys ==
  /\ runAt = "keys"
  /\ \E presented \in {"pinned", "other"} :
       IF IsPinned(shellDoc, presented)
       THEN At("auth") /\ socket' = "open" /\ offered' = offered \union {"secret"} /\ UNCHANGED <<problem, replied>>
       ELSE SshFails("host_key_mismatch") /\ UNCHANGED offered
  /\ UNCHANGED <<shellAsked, late, security, exchange, host, broken>>
SshConnects ==
  /\ runAt = "auth"
  /\ \/ socket' = "authenticated" /\ At("exec") /\ UNCHANGED <<problem, replied>>
     \/ \E level \in {"client-authentication", "client-socket"} \union (IF late THEN {"client-timeout"} ELSE {}) :
          SshFails(ConnectFailure(level))
  /\ UNCHANGED <<shellAsked, late, security, exchange, offered, host, broken>>

(* The exec request: a channel that opens after the deadline is killed at once. *)
AbortedUnheard == FALSE
Aborted == late
KillNothing(command) == command
Kill(command) == IF command = "running" THEN "killed" ELSE command
SshExec ==
  /\ runAt = "exec" /\ ~broken
  /\ \/ /\ remote' = IF Aborted THEN Kill("running") ELSE "running"
        /\ problem' = IF Aborted THEN "timeout" ELSE problem
        /\ At(IF Aborted THEN "close" ELSE "collect")
     \/ problem' = "upstream_error" /\ At("close") /\ UNCHANGED remote
  /\ UNCHANGED <<shellAsked, replied, late, session, shell, broken>>
SshHeard ==
  /\ runAt = "exec" /\ broken
  /\ problem' = "upstream_error" /\ At("close")
  /\ UNCHANGED <<shellAsked, replied, late, session, host, broken>>

(* The channel closes when the command ended or the connection is gone: both are a result. *)
SshCollects ==
  /\ runAt = "collect" /\ (remote # "running" \/ broken) /\ At("close")
  /\ UNCHANGED <<shellAsked, replied, late, problem, session, host, broken>>

SshClose ==
  /\ shellDoc.kind = "ssh" /\ runAt = "close" /\ At("done")
  /\ socket' = "none" /\ Reply(IF problem = "none" THEN "ok" ELSE problem)
  /\ UNCHANGED <<shellAsked, late, problem, security, exchange, offered, host, broken>>

----------------------------------------------------------------------------
(* WinRM *)

Cleanup == {"terminate", "delete"}
Exchanges == {"create", "command", "stdin", "receive"} \union Cleanup
Sealed(d) == d.auth = "negotiate" /\ ~d.tls

(* What follows a failed exchange: terminate and delete are only attempts. *)
AfterFailureDeletes(step) == IF step \in {"command", "stdin", "receive", "terminate"} THEN "delete" ELSE "done"
AfterFailure(step) ==
  CASE step = "receive" -> "terminate"
    [] step \in {"command", "stdin", "terminate"} -> "delete"
    [] OTHER -> "done"
GivesUp(step, outcome) ==
  /\ problem' = IF step \in Cleanup \/ problem # "none" THEN problem ELSE outcome
  /\ At(AfterFailure(step)) /\ exchange' = "ready"
  /\ IF AfterFailure(step) = "done"
     THEN Reply(IF problem' = "none" THEN "ok" ELSE problem') /\ socket' = "none" /\ security' = FALSE
     ELSE UNCHANGED <<replied, security>>

(* The handshake authenticates the socket, once per session. *)
HandshakeNeeded == shellDoc.auth = "negotiate" /\ ~security
NtlmAccepted == security' = TRUE /\ socket' = "authenticated"
Handshake ==
  /\ runAt \in Exchanges /\ exchange = "ready" /\ HandshakeNeeded /\ (~late \/ runAt \in Cleanup)
  /\ \/ /\ \E presented \in {"store", "pinned"} : CertificateHolds(shellDoc, presented)
        /\ NtlmAccepted /\ UNCHANGED <<problem, exchange, replied, runAt>>
     \/ \E outcome \in {"authentication_failed", "connection_failed", "tls_error", "upstream_error"} :
          /\ GivesUp(runAt, outcome)
          /\ socket' = IF AfterFailure(runAt) = "done" \/ outcome \in {"connection_failed", "tls_error"} THEN "none" ELSE "open"
  /\ UNCHANGED <<shellAsked, late, offered, host, broken>>

(* One POST: a lost socket is replaced, and the new one is nobody's. *)
Replaced == "open"
SocketOf == IF shellDoc.auth = "basic" THEN "authenticated"
              ELSE IF socket = "none" THEN Replaced
              ELSE socket
Carried(d) == IF d.auth = "basic" THEN {"secret", IF d.tls THEN "sealed" ELSE "clear"}
              ELSE {IF Sealed(d) \/ d.tls THEN "sealed" ELSE "clear"}
WinrmPost ==
  /\ runAt \in Exchanges /\ exchange = "ready" /\ ~HandshakeNeeded /\ (~late \/ runAt \in Cleanup)
  /\ socket' = SocketOf /\ exchange' = "posted" /\ offered' = offered \union Carried(shellDoc)
  /\ UNCHANGED <<shellAsked, runAt, replied, late, problem, security, host, broken>>

(* The host: who is not authenticated is answered 401 and nothing is done. *)
HostDoes(step) ==
  /\ shell' = CASE step = "create" -> "live" [] step = "delete" -> "deleted" [] OTHER -> shell
  /\ remote' = CASE step = "command" -> "running"
                 [] step = "terminate" -> Kill(remote)
                 [] step = "delete" -> Kill(remote)
                 [] OTHER -> remote
HostAnswers ==
  /\ exchange = "posted"
  /\ \/ socket # "authenticated" /\ exchange' = "unauthorized" /\ UNCHANGED host
     \/ socket = "authenticated" /\ HostDoes(runAt)
        /\ exchange' = IF runAt = "receive" /\ remote = "running" THEN "output" ELSE "done"
     \/ socket = "authenticated" /\ UNCHANGED host
        /\ exchange' \in {"fault"} \union (IF runAt = "receive" THEN {"TimedOut"} ELSE {})
     \/ socket = "authenticated" /\ HostDoes(runAt) /\ exchange' = "unreadable"
  /\ UNCHANGED <<shellAsked, runAt, replied, late, problem, socket, security, offered, broken>>

AfterCommand == IF ask.stdin THEN "stdin" ELSE "receive"
AfterSuccess(step) ==
  CASE step = "create" -> "command"
    [] step = "command" -> AfterCommand
    [] step = "stdin" -> "receive"
    [] OTHER -> "delete"
AnswerRead == {"unauthorized", "output", "done", "fault", "TimedOut", "unreadable"}
AnswerFailure(answer) == IF answer = "unauthorized" THEN "authentication_failed" ELSE "upstream_error"
WinrmAnswer ==
  /\ exchange \in AnswerRead /\ (~late \/ runAt \in Cleanup)
  /\ CASE exchange \in {"output", "TimedOut"} -> exchange' = "ready" /\ UNCHANGED <<runAt, problem, replied, socket, security>>
       [] exchange = "done" /\ runAt # "delete" ->
            At(AfterSuccess(runAt)) /\ exchange' = "ready" /\ UNCHANGED <<problem, replied, socket, security>>
       [] OTHER -> /\ GivesUp(runAt, AnswerFailure(exchange))
                   /\ runAt \notin {"create", "delete"} => UNCHANGED socket
  /\ UNCHANGED <<shellAsked, late, offered, host, broken>>

(* A request cut short takes its socket with it: by the deadline, by its own, or by the network. *)
WinrmCut(outcome) == GivesUp(runAt, outcome) /\ socket' = "none"
WinrmAborted ==
  /\ runAt \in Exchanges \ Cleanup /\ late /\ WinrmCut("timeout")
  /\ UNCHANGED <<shellAsked, late, offered, host, broken>>
CleanupOverdue ==
  /\ runAt \in Cleanup /\ exchange # "ready" /\ WinrmCut("none")
  /\ UNCHANGED <<shellAsked, late, offered, host, broken>>
WinrmLost ==
  /\ runAt \in Exchanges /\ exchange # "ready" /\ ~broken /\ broken' = TRUE /\ WinrmCut("connection_failed")
  /\ UNCHANGED <<shellAsked, late, offered, host>>

----------------------------------------------------------------------------
(* The deadline, the command and the network *)

HearsDeadline == runAt = "collect" /\ ~broken
ShellDeadline ==
  /\ runAt \notin {"idle", "done"} /\ ~late /\ late' = TRUE /\ Reply("timeout")
  /\ IF HearsDeadline
     THEN remote' = Kill(remote) /\ problem' = "timeout" /\ At("close")
     ELSE UNCHANGED <<remote, problem, runAt>>
  /\ UNCHANGED <<shellAsked, session, shell, broken>>
CommandEnds ==
  /\ remote = "running" /\ remote' = "ended"
  /\ UNCHANGED <<shellAsked, runAt, replied, late, problem, session, shell, broken>>
SshBreaks ==
  /\ runAt \in {"exec", "collect"} /\ ~broken /\ broken' = TRUE
  /\ UNCHANGED <<shellAsked, runAt, replied, late, problem, session, host>>

SshWorks == SshKeys \/ SshConnects \/ SshExec \/ SshHeard \/ SshCollects \/ SshClose
WinrmWorks == Handshake \/ WinrmPost \/ WinrmAnswer \/ WinrmAborted \/ CleanupOverdue
ShellWorks == SshWorks \/ WinrmWorks
ShellNext == ShellArrive \/ ShellWorks \/ ShellDeadline \/ HostAnswers \/ WinrmLost \/ CommandEnds \/ SshBreaks
ShellSpec == ShellInit /\ [][ShellNext]_shellVars

----------------------------------------------------------------------------

ShellTypeOK ==
  /\ ShellSavable(shellDoc)
  /\ runAt \in {"idle", "keys", "auth", "exec", "collect", "close", "done"} \union Exchanges
  /\ socket \in {"none", "open", "authenticated"} /\ offered \subseteq {"secret", "clear", "sealed"}
  /\ remote \in {"none", "running", "ended", "killed"} /\ shell \in {"none", "live", "deleted"}

(* ACT-88, ACT-39: a command that reaches a host is one the policy takes:  *)
(* any command on a deployment that allows it, or a listed one without a   *)
(* shell operator or a second line.                                        *)
OnlyAllowedRuns ==
  remote # "none" =>
    /\ ~ask.long
    /\ IF shellDoc.any THEN shellDoc.allowAny ELSE ask.listed /\ ~ask.meta /\ ~ask.breaks

(* ACT-87, ACT-89: a secret crosses the network only to the pinned host    *)
(* key, or inside TLS; and no envelope travels in the clear.              *)
NothingInTheClear ==
  /\ "clear" \notin offered
  /\ shellDoc.kind = "ssh" /\ "secret" \in offered => problem # "host_key_mismatch" /\ shellDoc.hostKey = "pinned"
  /\ shellDoc.kind = "winrm" /\ "secret" \in offered => shellDoc.tls

(* ACT-59: when an ssh call is over, its command is not left running,      *)
(* unless the connection failed first, whatever the order of the channel's *)
(* opening and the deadline.                                               *)
SshCommandEnded == shellDoc.kind = "ssh" /\ runAt = "done" /\ remote = "running" => broken

(* ACT-90: the client gives a running command up only through Signal, and  *)
(* a shell is deleted after it.                                           *)
SignalFirst ==
  [][runAt = "receive" /\ runAt' # "receive" /\ remote = "running" => runAt' = "terminate"]_shellVars

(* The answer of a success is a command that ended or whose connection was lost. *)
OkIsOver == replied = "ok" => remote \in {"ended", "killed"} \/ broken

(* The connector goes on once it can, and its timers fire; that a command  *)
(* ends or a host answers is not assumed.                                  *)
ShellFairness == WF_shellVars(ShellWorks) /\ WF_shellVars(ShellDeadline)
(* ACT-58: a call that began ends, with its connection released, whether   *)
(* or not its command ever ends.                                           *)
ShellCallsEnd == runAt \in {"keys", "create"} ~> runAt = "done" /\ socket = "none"

(* transport.ts: "a negotiating session holds one socket from the           *)
(* handshake until `release`", so Signal and Delete reach the host as the   *)
(* account that started the command.                                      *)
CleanupHeard == [][(runAt \in Cleanup /\ ~broken) => (exchange' # "unauthorized")]_shellVars

ShellSafe == ShellTypeOK /\ OnlyAllowedRuns /\ NothingInTheClear /\ SshCommandEnded /\ OkIsOver
=============================================================================
