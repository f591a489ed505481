-------------------------------- MODULE Identity --------------------------------
(***************************************************************************)
(* Whose command is it? resolve_context_key of common/active_task.py names *)
(* the window that a script of .trellis runs for: by an override, by what  *)
(* a hook was handed, by the environment, and for Cursor, whose shells are *)
(* told nothing, by the tickets that its hook leaves for a command to come.*)
(*                                                                         *)
(* An id is [window, kind]; what the code tells apart in it is whose it is *)
(* and whether it is a transcript, which is hashed. A key is the platform  *)
(* and the id.                                                             *)
(***************************************************************************)
EXTENDS Integers, FiniteSets, SequencesExt

Nobody == [platform |-> "none", window |-> "none", transcript |-> FALSE]
Windows == {"a", "b"}
Kinds == <<"session", "conversation", "transcript">>
SessionCommands == {"start", "current", "finish"}
Ttl == 30

(* A session and a conversation of the same value have the same key        *)
ContextKey(platform, id) ==
  [platform |-> platform, window |-> id.window, transcript |-> id.kind = "transcript"]

(* _lookup_string: the first kind that is there, wherever it is nested     *)
Ids(window) == {[window |-> window, kind |-> Kinds[i]] : i \in DOMAIN Kinds}
Earliest(ids) ==
  CHOOSE id \in ids : \A other \in ids :
    SelectInSeq(Kinds, LAMBDA k : k = id.kind) <= SelectInSeq(Kinds, LAMBDA k : k = other.kind)

(* What a shell may find in its environment, for platforms that differ     *)
Exports == [claude |-> {"session", "transcript"}, kiro |-> {"session"},
            cursor |-> {"session", "conversation", "transcript"}]

(* What a platform exports, as <<platform, id>>; a hook that knows its     *)
(* platform looks only at that one's (_lookup_env_context_key). A shell is *)
(* that of one platform.                                                   *)
Exported(env, platform) ==
  {e \in env : e[2].kind \in Exports[e[1]] /\ (platform \in {"none", "session"} \/ e[1] = platform)}
EnvKey(env, platform) ==
  LET seen == Exported(env, platform)
      first == Earliest({e[2] : e \in seen})
      who == CHOOSE e \in seen : e[2].kind = first.kind
  IN  IF seen = {} THEN Nobody ELSE ContextKey(who[1], who[2])

(* A ticket is [window, names, task, age, expired, here]: the commands the *)
(* hook saw in the line, the task of a start among them, how long ago, and *)
(* whether it is of this repository.                                       *)
Fresh(ticket) == ~ticket.expired /\ ticket.age <= Ttl
MatchesAnyTask(ticket, command) ==
  command.name \in SessionCommands /\ command.name \in ticket.names
Matches(ticket, command) ==
  /\ command.name \in SessionCommands /\ command.name \in ticket.names
  /\ command.name = "start" => ticket.task = command.task
TicketKeys(tickets, command) ==
  {ContextKey("cursor", [window |-> t.window, kind |-> "conversation"]) :
     t \in {u \in tickets : Fresh(u) /\ u.here /\ Matches(u, command)}}
TicketKeyAny(tickets, command) ==
  LET keys == TicketKeys(tickets, command)
  IN  IF keys # {} THEN CHOOSE k \in keys : TRUE ELSE Nobody
TicketKey(tickets, command) ==
  LET keys == TicketKeys(tickets, command)
  IN  IF Cardinality(keys) = 1 THEN CHOOSE k \in keys : TRUE ELSE Nobody

(* resolve_context_key for a command: [name, task, override, given, env,   *)
(* platform], where given are the ids a hook was handed                    *)
ResolvedKey(command, tickets) ==
  LET env == EnvKey(command.env, command.platform) IN
  IF command.override # {}
  THEN ContextKey("any", CHOOSE id \in command.override : TRUE)
  ELSE IF command.given # {}
  THEN ContextKey(IF command.platform = "none" THEN "session" ELSE command.platform, Earliest(command.given))
  ELSE IF env # Nobody THEN env
  ELSE IF command.platform \in {"none", "session", "cursor"} THEN TicketKey(tickets, command)
  ELSE Nobody
================================================================================
