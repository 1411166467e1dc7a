----------------------------- MODULE CommandLine -----------------------------
(***************************************************************************)
(* mboot-cli: one command, a script or an interactive shell on a Runtime.  *)
(* A line is its words, already cut at the blanks and in lower case; what  *)
(* a command prints is its result and the format it is printed in.  The    *)
(* Runtime is external: what it keeps of calls, and that one may fail.     *)
(***************************************************************************)
EXTENDS Integers, Sequences, FiniteSets, SequencesExt

CONSTANTS
    Invocations,   \* the argument lists main() may be given
    Typed,         \* the lines typed at the prompt
    ScriptFiles,   \* the scripts there are: a function from names to sequences of lines
    DataFiles,     \* the other files that can be opened
    CliFailures,   \* the errors calls of the Runtime may end in
    MaxTyped,      \* bound on the lines typed
    MaxDepth       \* bound on scripts within scripts: there the stack is full

VARIABLES
    cli,           \* CliApplication: where it is and its command, the lines typed, m_quiet, the format, the exit status
    crt,           \* the Runtime: initialized, connected, cancelled
    stack,         \* the scripts under way, innermost first: who runs them, the lines left, the command
    said,          \* the result of the last command
    ran, did       \* history: the lines executed; the calls the Runtime has let through

clivars == <<cli, crt, stack, said, ran, did>>

\* Words: a name, a number, digits in base 16, an option with or without a good value.
Word(v)      == [k |-> "word", v |-> v, good |-> TRUE]
Number(v)    == [k |-> "num", v |-> v, good |-> TRUE]
HexData(ok)  == [k |-> "hex", v |-> 0, good |-> ok]
Option(v)    == [k |-> "option", v |-> v, good |-> TRUE]
BadOption(v) == [k |-> "option", v |-> v, good |-> FALSE]

\* A line, and the character a comment starts with.
Line(words)          == [mark |-> "", words |-> words]
Comment(mark, words) == [mark |-> mark, words |-> words]

------------------------------------------------------------------------------
(* CliParser                                                               *)

CommandNames ==
    {"help", "version", "list", "discover", "connect", "disconnect", "reconnect", "flash", "read", "write", "erase",
     "verify", "backup", "restore", "workflow", "job", "package", "plugin", "vendor", "transport", "session", "monitor",
     "statistics", "health", "capabilities", "reset", "cancel", "pause", "resume", "reboot", "shutdown", "shell",
     "script", "completion"}

resolveCommand(w) ==
    IF w.k # "word" THEN "invalid"
    ELSE IF w.v = "stats" THEN "statistics" ELSE IF w.v \in CommandNames THEN w.v ELSE "invalid"

\* The options that take a number: stoull(), stoul() and stoi() throw.
NumberOptions == {"address", "size", "timeout", "retry"}

ParsedCommand == [type |-> "help", args |-> <<>>, options |-> {}, throws |-> FALSE]

\* Options are taken out wherever they are, behind the name of the command.
parseOptions(words) == {words[i].v : i \in {j \in DOMAIN words : words[j].k = "option"}}

parse(words) ==
    IF words = <<>> THEN ParsedCommand
    ELSE LET rest == Tail(words)
         IN  [type    |-> resolveCommand(Head(words)),
              args    |-> SelectSeq(rest, LAMBDA w : w.k # "option"),
              options |-> parseOptions(rest),
              throws  |-> \E i \in DOMAIN rest : rest[i].k = "option" /\ rest[i].v \in NumberOptions /\ ~rest[i].good]

------------------------------------------------------------------------------
(* The Runtime's side of a call: what may come of it.                      *)

\* A device is its place in a discovery.
NoDevice == -1

Outcome(err, rt, calls) == [err |-> err, rt |-> rt, calls |-> calls]

\* Mutant: the flag is not looked at.
letsAllThrough(rt) == TRUE

\* OperationContext::invoke() lets nothing through once cancel() was called.
letsThrough(rt) == ~rt.cancelled

Succeeds(c, arg, rt) == IF c = "connect" THEN [rt EXCEPT !.connected = arg] ELSE rt

\* The calls behind an OperationContext.
Invoked(c, arg, rt) ==
    IF ~letsThrough(rt) THEN {Outcome("Cancelled", rt, <<>>)}
    ELSE IF c = "connect" /\ rt.connected # NoDevice THEN {Outcome("SessionAlreadyConnected", rt, <<>>)}
    ELSE IF c \in {"flash", "workflow"} /\ rt.connected = NoDevice THEN {Outcome("SessionNotConnected", rt, <<>>)}
    ELSE {Outcome("Success", Succeeds(c, arg, rt), <<c>>)} \cup {Outcome(e, rt, <<c>>) : e \in CliFailures}

\* The calls that have no result, and reset().
Direct == {"disconnect", "reset", "cancel", "pause", "resume", "shutdown"}

DirectEffect(c, rt) ==
    CASE c = "disconnect" -> [rt EXCEPT !.connected = NoDevice]
      [] c = "reset"      -> [rt EXCEPT !.connected = NoDevice, !.cancelled = FALSE]
      [] c = "cancel"     -> [rt EXCEPT !.cancelled = TRUE]
      [] c = "shutdown"   -> [init |-> FALSE, connected |-> NoDevice, cancelled |-> FALSE]
      [] OTHER            -> rt

RuntimeCall(c, arg, rt) ==
    IF c \in Direct THEN {Outcome("Success", DirectEffect(c, rt), <<c>>)} ELSE Invoked(c, arg, rt)

\* One call, and another when the first has succeeded.
Then(outs, c, arg) ==
    UNION {IF o.err = "Success" THEN {[p EXCEPT !.calls = o.calls \o @] : p \in RuntimeCall(c, arg, o.rt)} ELSE {o} : o \in outs}

------------------------------------------------------------------------------
(* CliCommands: each command returns what it found wrong, or its calls.    *)

exitCodeFor(err) ==
    CASE err = "Success" -> 0
      [] err = "InvalidArgument" -> 2
      [] err = "DeviceNotFound" -> 3
      [] err \in {"TransportError", "TransportTimeout", "TransportNotOpen"} -> 4
      [] err \in {"WorkflowExecutionFailed", "WorkflowStepFailed", "WorkflowRecoveryFailed"} -> 5
      [] err \in {"FirehoseProgramFailed", "FirehoseEraseFailed", "FirmwareValidationFailed"} -> 6
      [] err = "FirmwareHashMismatch" -> 7
      [] err = "SessionTimeout" -> 8
      [] err = "Cancelled" -> 9
      [] OTHER -> 1

Refused(err, rt) == {Outcome(err, rt, <<>>)}

IsNumber(args, i) == args[i].k = "num"

\* The index is one of a new discovery, not of the list printed last.
connectCommand(args, rt) ==
    IF args = <<>> \/ ~IsNumber(args, 1) THEN Refused("InvalidArgument", rt)
    ELSE UNION {IF o.err # "Success" THEN {o}
                ELSE {[o EXCEPT !.err = "DeviceNotFound"]} \cup Then({o}, "connect", args[1].v) : o \in RuntimeCall("discover", "", rt)}

flashCommand(args, options, rt) ==
    IF args = <<>> THEN Refused("InvalidArgument", rt)
    ELSE IF "dry-run" \in options THEN Refused("Success", rt)
    ELSE Then(RuntimeCall("load", "", rt), "flash", "")

\* read, write, erase and verify: the numbers are looked at first; data that is
\* not in base 16 throws.
memoryCommand(type, args, rt) ==
    LET least == IF type \in {"read", "verify"} THEN 2 ELSE 1
        sized == type \in {"read", "erase"} /\ Len(args) > 1
    IN  IF Len(args) < least THEN Refused("InvalidArgument", rt)
        ELSE IF ~IsNumber(args, 1) \/ (sized /\ ~IsNumber(args, 2)) THEN Refused("InvalidArgument", rt)
        ELSE IF type \in {"write", "verify"} /\ Len(args) > 1 /\ ~args[2].good THEN Refused("throws", rt)
        ELSE RuntimeCall(type, "", rt)

\* The file a backup goes to is opened when the backup is there.
backupCommand(args, rt) ==
    IF args = <<>> THEN Refused("InvalidArgument", rt)
    ELSE UNION {IF o.err # "Success" \/ Len(args) = 1 THEN {o} ELSE {o, [o EXCEPT !.err = "Unknown"]} :
                o \in RuntimeCall("backup", "", rt)}

\* restore and job read their file before they call the Runtime.
fileCommand(type, args, rt) ==
    LET at == IF type = "job" THEN 3 ELSE 2
    IN  IF Len(args) < at THEN Refused("InvalidArgument", rt)
        ELSE IF args[at].v \notin DataFiles THEN Refused("Unknown", rt)
        ELSE RuntimeCall(type, "", rt)

packageCommand(args, rt) ==
    IF args = <<>> THEN Refused("Usage", rt)
    ELSE IF args[1].v = "info" /\ Len(args) > 1 THEN RuntimeCall("load", "", rt) ELSE Refused("InvalidArgument", rt)

workflowCommand(args, rt) == IF args = <<>> THEN Refused("InvalidArgument", rt) ELSE RuntimeCall("workflow", "", rt)

completionCommand(args, rt) ==
    Refused(IF args = <<>> \/ args[1].v \in {"bash", "powershell", "zsh"} THEN "Success" ELSE "InvalidArgument", rt)

\* The commands that only print.
Printing == {"help", "version", "list", "plugin", "vendor", "transport", "session", "statistics", "health", "capabilities", "shell"}

\* CliCommands::execute() of an initialized Runtime, but for scripts.
executeCommand(p, rt) ==
    CASE p.type \in Printing -> Refused("Success", rt)
      [] p.type = "connect" -> connectCommand(p.args, rt)
      [] p.type = "flash" -> flashCommand(p.args, p.options, rt)
      [] p.type \in {"read", "write", "erase", "verify"} -> memoryCommand(p.type, p.args, rt)
      [] p.type = "backup" -> backupCommand(p.args, rt)
      [] p.type \in {"restore", "job"} -> fileCommand(p.type, p.args, rt)
      [] p.type = "workflow" -> workflowCommand(p.args, rt)
      [] p.type = "package" -> packageCommand(p.args, rt)
      [] p.type = "completion" -> completionCommand(p.args, rt)
      [] p.type = "monitor" -> Refused("NotSupported", rt)
      [] p.type = "reboot" -> RuntimeCall("reset", "", rt)
      [] p.type \in {"discover", "reconnect"} \cup Direct -> RuntimeCall(p.type, "", rt)
      [] OTHER -> Refused("Unknown", rt)

------------------------------------------------------------------------------
(* CliApplication                                                          *)

\* CliFormatter: lists, versions and errors have no form in XML, and come as
\* text; what help, list and completion print has one form.
formatOf(type, code, format) ==
    IF type \in {"help", "list", "completion"} /\ code = 0 THEN "text"
    ELSE IF format = "xml" /\ (code # 0 \/ type \in (Printing \ {"statistics", "health", "shell"}) \cup {"package"}) THEN "text" ELSE format

\* A result: what is printed, unless another command prints it as part of its
\* own or the application is quiet.
Result(type, code, outer) ==
    [type |-> type, code |-> code, format |-> formatOf(type, code, cli.format), printed |-> outer /\ ~cli.quiet]

\* executeParsed() has printed: --json takes effect for what comes after.
Printed(p, outer) ==
    cli' = [cli EXCEPT !.format = IF outer /\ "json" \in p.options THEN "json" ELSE @,
                       !.at = IF cli.at = "begun" THEN "done" ELSE @]

\* An exception nobody catches.
Terminates == cli' = [cli EXCEPT !.at = "terminated"] /\ UNCHANGED <<crt, stack, said, ran, did>>

Answers(p, outer, code) == said' = Result(p.type, code, outer) /\ Printed(p, outer)

\* script(), within the application: its lines go before those that are left.
script(p, outer, rest, rt) ==
    /\ UNCHANGED did
    /\ IF p.args # <<>> /\ p.args[1].v \in DOMAIN ScriptFiles
       THEN /\ stack' = <<[top |-> FALSE, rest |-> ScriptFiles[p.args[1].v], cmd |-> p, outer |-> outer]>> \o rest
            /\ crt' = rt /\ UNCHANGED said
            /\ cli' = [cli EXCEPT !.at = IF Len(rest) < MaxDepth THEN @ ELSE "terminated"]
       ELSE stack' = rest /\ crt' = rt /\ Answers(p, outer, IF p.args = <<>> THEN 2 ELSE 1)

\* A command: ensureInitialized(), which may fail, then execute().
Executes(p, outer, rest) ==
    IF p.throws THEN Terminates
    ELSE \/ /\ ~crt.init /\ Answers(p, outer, 10)
            /\ ran' = Append(ran, "init") /\ stack' = rest /\ UNCHANGED <<crt, did>>
         \/ LET rt == [crt EXCEPT !.init = TRUE]
            IN  IF p.type = "script" THEN script(p, outer, rest, rt) /\ ran' = Append(ran, p.type)
                ELSE \E o \in executeCommand(p, rt) :
                        IF o.err = "throws" THEN Terminates
                        ELSE /\ crt' = o.rt /\ stack' = rest /\ Answers(p, outer, exitCodeFor(o.err))
                             /\ ran' = Append(ran, p.type) /\ did' = did \o o.calls

Returns(status) == cli' = [cli EXCEPT !.at = "done", !.status = status]

\* main() and the first half of run().
begin ==
    /\ cli.at = "start"
    /\ \E args \in Invocations :
          LET p == parse(args)
          IN  IF p.throws THEN Terminates
              ELSE /\ cli' = [cli EXCEPT !.at = "begun", !.cmd = IF args = <<>> THEN [p EXCEPT !.type = "shell"] ELSE p,
                                         !.quiet = "quiet" \in p.options,
                                         !.format = IF "xml" \in p.options THEN "xml" ELSE IF "json" \in p.options THEN "json" ELSE @]
                   /\ UNCHANGED <<crt, stack, said, ran, did>>

\* run() of one command.
runCommand ==
    /\ cli.at = "begun" /\ cli.cmd.type \notin {"shell", "script"}
    /\ Executes(cli.cmd, TRUE, <<>>)

\* runInteractive() and runScript() begin with initialize().
runInteractive ==
    /\ cli.at = "begun" /\ cli.cmd.type = "shell"
    /\ \/ Returns(1) /\ UNCHANGED crt
       \/ cli' = [cli EXCEPT !.at = "shell"] /\ crt' = [crt EXCEPT !.init = TRUE]
    /\ UNCHANGED <<stack, said, ran, did>>

runScript ==
    /\ cli.at = "begun" /\ cli.cmd.type = "script"
    /\ LET args == cli.cmd.args
       IN  \/ args = <<>> /\ Returns(2) /\ UNCHANGED <<crt, stack>>
           \/ args # <<>> /\ Returns(1) /\ UNCHANGED <<crt, stack>>
           \/ /\ args # <<>> /\ args[1].v \notin DOMAIN ScriptFiles
              /\ Returns(2) /\ crt' = [crt EXCEPT !.init = TRUE] /\ UNCHANGED stack
           \/ /\ args # <<>> /\ args[1].v \in DOMAIN ScriptFiles
              /\ cli' = [cli EXCEPT !.at = "script"] /\ crt' = [crt EXCEPT !.init = TRUE]
              /\ stack' = <<[top |-> TRUE, rest |-> ScriptFiles[args[1].v], cmd |-> cli.cmd, outer |-> TRUE]>>
    /\ UNCHANGED <<said, ran, did>>

\* A line at the prompt that is neither empty nor a comment.
shellLine ==
    /\ cli.at = "shell" /\ stack = <<>> /\ Len(ran) < MaxTyped
    /\ \E line \in Typed : line.mark = "" /\ Executes(parse(line.words), TRUE, <<>>)

\* exit, quit, or the end of the input.
shellEnds ==
    /\ cli.at = "shell" /\ stack = <<>>
    /\ Returns(0) /\ UNCHANGED <<crt, stack, said, ran, did>>

\* Lines that are not executed: what runScript() takes for nothing, and what
\* script() does.  runScript() parses a comment too, and goes on in
\* executeCommand(), which has one more mark of comments.
Skipped(frame, line) ==
    IF frame.top THEN line.mark # "" \/ (parse(line.words).type = "help" /\ parse(line.words).args = <<>>)
    ELSE line.mark = "#" \/ line.words = <<>>

scriptLine ==
    /\ cli.at \in {"script", "shell"} /\ stack # <<>> /\ Head(stack).rest # <<>>
    /\ LET frame == Head(stack)
           line  == Head(frame.rest)
           p     == parse(line.words)
           rest  == <<[frame EXCEPT !.rest = Tail(@)]>> \o Tail(stack)
       IN  IF Skipped(frame, line)
           THEN IF frame.top /\ p.throws THEN Terminates ELSE stack' = rest /\ UNCHANGED <<cli, crt, said, ran, did>>
           ELSE Executes(p, frame.top, rest)

scriptEnds ==
    /\ cli.at \in {"script", "shell"} /\ stack # <<>> /\ Head(stack).rest = <<>>
    /\ stack' = Tail(stack)
    /\ IF Head(stack).top THEN Returns(0) /\ UNCHANGED said ELSE Answers(Head(stack).cmd, Head(stack).outer, 0)
    /\ UNCHANGED <<crt, ran, did>>

\* ~CliApplication().
destroyed ==
    /\ cli.at = "done"
    /\ cli' = [cli EXCEPT !.at = "ended"]
    /\ crt' = DirectEffect("shutdown", crt)
    /\ UNCHANGED <<stack, said, ran, did>>

CliInit ==
    /\ cli = [at |-> "start", cmd |-> ParsedCommand, quiet |-> FALSE, format |-> "text", status |-> 0]
    /\ crt = [init |-> FALSE, connected |-> NoDevice, cancelled |-> FALSE]
    /\ stack = <<>> /\ said = [type |-> "none", code |-> 0, format |-> "text", printed |-> FALSE]
    /\ ran = <<>> /\ did = <<>>

CliNext ==
    \/ begin \/ runCommand \/ runInteractive \/ runScript \/ shellLine \/ shellEnds \/ scriptLine \/ scriptEnds
    \/ destroyed

CliSpec == CliInit /\ [][CliNext]_clivars

------------------------------------------------------------------------------
(* Correctness.                                                            *)

\* The commands a script comes to, up to a depth: its lines in order, those of
\* a script it names in the place of the line that names it.
Expansion[d \in 0..MaxDepth] ==
    [top \in BOOLEAN, f \in DOMAIN ScriptFiles |->
        FlattenSeq([i \in DOMAIN ScriptFiles[f] |->
            LET p == parse(ScriptFiles[f][i].words)
            IN  IF Skipped([top |-> top], ScriptFiles[f][i]) THEN <<>>
                ELSE IF d > 0 /\ p.type = "script" /\ p.args # <<>> /\ p.args[1].v \in DOMAIN ScriptFiles
                THEN <<p.type>> \o Expansion[d - 1][FALSE, p.args[1].v]
                ELSE <<p.type>>])]

\* A script that has come to its end has run every command of it, in order and
\* once, those of the scripts it names included: no command that fails, not
\* even a shutdown, keeps the ones after it from being run.
ScriptsRunWhole ==
    (cli.at \in {"done", "ended"} /\ cli.cmd.type = "script" /\ cli.status = 0 /\ "init" \notin ToSet(ran)) =>
        ran = Expansion[MaxDepth][TRUE, cli.cmd.args[1].v]

\* Whatever command line, script or typed lines there were, the application
\* leaves the Runtime shut down and no device connected.
EndsShutDown == cli.at = "ended" => ~crt.init /\ crt.connected = NoDevice

\* After a cancel nothing more is done to a device, by this line or a later
\* one, until a reset, a reboot or a shutdown.
CancelHoldsInShell ==
    \A i, j \in DOMAIN did :
        (i < j /\ did[i] = "cancel" /\ did[j] \notin Direct) => \E k \in i..j : did[k] \in {"reset", "shutdown"}

CommandsAreExact == ScriptsRunWhole /\ EndsShutDown /\ CancelHoldsInShell

\* CLIReference.md, "Exit Codes": the status of a command says what became of
\* it.  The code prints that code and returns 0.
ExitStatusTells == (cli.at = "ended" /\ cli.cmd.type \notin {"shell", "script"}) => cli.status = said.code

\* What else the code does not keep: the result of the line that asks for JSON
\* is not JSON in a shell, an error is not XML where that was asked for, a
\* quiet application does not print errors either, and an option whose number
\* is none, even in a comment of a script, is the end of the application, with
\* a device connected.
FormatIsAsked == said.printed => said.format = cli.format
ErrorsArePrinted == (cli.at = "ended" /\ said.code # 0) => said.printed
NeverTerminates == cli.at = "terminated" => crt.connected = NoDevice
=============================================================================
