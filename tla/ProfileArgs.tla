------------------------------ MODULE ProfileArgs ------------------------------
(***************************************************************************)
(* The command line of a llama-server: the merge of a benchmark's flag     *)
(* overrides (StartServerWithOverrides of                                  *)
(* src/internal/process/supervisor.go) and BuildCommand of                 *)
(* src/internal/profiles/manager.go.                                       *)
(*                                                                         *)
(* The arguments are a sequence of tokens.  Tokens are told apart as far   *)
(* as the code does: the flags it knows, whether one begins with a dash,   *)
(* the name of a projector file.                                           *)
(***************************************************************************)
EXTENDS Naturals, Sequences, SequencesExt

CONSTANT Dashed  \* the tokens with strings.HasPrefix(token, "-")

ModelFlags == {"-m", "--model"}
HostFlags  == {"--host"}
PortFlags  == {"--port", "-p"}
Rewritten  == ModelFlags \union HostFlags \union PortFlags
Projector  == "mmproj.gguf"

ASSUME DashAssumption == Rewritten \subseteq Dashed /\ Projector \notin Dashed

(* The override of a cell is a pair of a flag and a value; the runner      *)
(* sweeps one flag at a time.                                              *)
NoValue == ""
NoOverride == <<"none", NoValue>>

------------------------------------------------------------------------------
(* The merge. *)

Valued(override) ==
    IF override[2] = NoValue THEN <<override[1]>> ELSE override

(* The token after k is taken for the value of k. *)
HasValue(args, k) == k < Len(args) /\ args[k + 1] \notin Dashed

(* One turn of the loop over p.Args: newArgs (out), used, and whether this *)
(* turn's token was skipped by the turn before (i++).                      *)
MergeTurn(args, override, turn, k) ==
    IF turn.skip THEN [out |-> turn.out, used |-> turn.used, skip |-> FALSE]
    ELSE IF args[k] = override[1]
    THEN [out |-> turn.out \o Valued(override), used |-> TRUE, skip |-> HasValue(args, k)]
    ELSE [out |-> Append(turn.out, args[k]), used |-> turn.used, skip |-> FALSE]

(* The loop: the state after the first k arguments. *)
MergeTurns(args, override) ==
    LET turns[k \in 0..Len(args)] ==
            IF k = 0 THEN [out |-> <<>>, used |-> FALSE, skip |-> FALSE]
            ELSE MergeTurn(args, override, turns[k - 1], k)
    IN turns

(* An override of a flag the profile does not have is appended. *)
Merge(args, override) ==
    LET end == MergeTurns(args, override)[Len(args)] IN
    IF override = NoOverride THEN args
    ELSE IF end.used THEN end.out ELSE end.out \o Valued(override)

------------------------------------------------------------------------------
(* BuildCommand. *)

(* What the studio decides, whatever the profile says: the path of the     *)
(* catalogued model, the host, the reserved port.                          *)
Own(flag) ==
    IF flag \in ModelFlags THEN "MODEL"
    ELSE IF flag \in HostFlags THEN "HOST" ELSE "PORT"

(* Mutant: the port of the profile is kept. *)
Rewrite_KeepPort(args, k) ==
    <<args[k], IF args[k] \in PortFlags /\ k < Len(args) THEN args[k + 1] ELSE Own(args[k])>>

(* A flag of these gets that value, whether it has one or not. *)
Rewrite(args, k) == <<args[k], Own(args[k])>>

(* Mutant: a projector without its flag is passed on as it is. *)
Copied_NoHeal(out, token) == <<token>>

(* Any other token is copied; a projector that lacks its flag gets it. *)
Copied(out, token) ==
    IF token = Projector /\ (out = <<>> \/ Last(out) # "--mmproj")
    THEN <<"--mmproj", token>> ELSE <<token>>

(* One turn of the loop; the token after a rewritten flag is skipped. *)
BuildTurn(args, turn, k) ==
    IF turn.skip THEN [turn EXCEPT !.skip = FALSE]
    ELSE IF args[k] \in Rewritten
    THEN [out |-> turn.out \o Rewrite(args, k), has |-> turn.has \union {Own(args[k])},
          skip |-> TRUE]
    ELSE [turn EXCEPT !.out = @ \o Copied(@, args[k])]

(* The loop over the arguments: the state after the first k of them. *)
BuildTurns(args) ==
    LET turns[k \in 0..Len(args)] ==
            IF k = 0 THEN [out |-> <<>>, has |-> {}, skip |-> FALSE]
            ELSE BuildTurn(args, turns[k - 1], k)
    IN turns

(* A flag whose hasModel, hasHost or hasPort stayed false is added. *)
Default(flag, has) == IF Own(flag) \in has THEN <<>> ELSE <<flag, Own(flag)>>

BuildCommand(args) ==
    LET end == BuildTurns(args)[Len(args)] IN
    end.out \o Default("-m", end.has) \o Default("--host", end.has) \o Default("--port", end.has)

------------------------------------------------------------------------------
(* The merge as one would describe it: the options of the profile, the     *)
(* overridden one with its new value, in their order.                      *)
Hits(options, override, k) == options[k][1] = override[1]

Replaced(options, override) ==
    [k \in DOMAIN options |-> IF Hits(options, override, k) THEN Valued(override) ELSE options[k]]

MergedOptions(options, override) ==
    IF override = NoOverride THEN options
    ELSE IF \E k \in DOMAIN options : Hits(options, override, k) THEN Replaced(options, override)
    ELSE Append(Replaced(options, override), Valued(override))

(* "Replace existing values in p.Args": a variant of a sweep differs from  *)
(* the profile in the value of its flag and in nothing else.  (It does not *)
(* hold when the value replaced begins with a dash: -c -1 under -c 4096    *)
(* leaves a stray -1.)                                                     *)
Replaces(options, override) ==
    Merge(FlattenSeq(options), override) = FlattenSeq(MergedOptions(options, override))

(* The process is told the model of the catalog, the host, and the port    *)
(* the supervisor reserved, and nothing that contradicts them, although a  *)
(* profile or an override may name others.                                 *)
OwnAddress(command) ==
    /\ \A k \in DOMAIN command :
          command[k] \in Rewritten => k < Len(command) /\ command[k + 1] = Own(command[k])
    /\ \A family \in {ModelFlags, HostFlags, PortFlags} :
          \E k \in DOMAIN command : command[k] \in family

(* "Self-healing check": a projector is always the value of --mmproj. *)
ProjectorFlagged(command) ==
    \A k \in DOMAIN command :
        command[k] = Projector => k > 1 /\ command[k - 1] = "--mmproj"
==============================================================================
