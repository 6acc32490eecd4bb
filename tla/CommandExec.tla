----------------------------- MODULE CommandExec -----------------------------
(***************************************************************************)
(* The command execution tool of the assistant,                            *)
(* lib/ai/model/tools/commandexec.go.  The tool is never run: when the     *)
(* model plans it, the agent calls ParseInput on the input the model wrote *)
(* and leaves its loop with the command, or with the error the model is    *)
(* told.  The input is what the model makes of the schema in Description:  *)
(* any field may be missing, null or empty.                                *)
(***************************************************************************)
EXTENDS Integers, FiniteSets

CONSTANTS
    Commands,   \* the commands the model writes, none of them empty
    Nodes,      \* node names
    Labels,     \* labels
    Absent,     \* a field the JSON object does not have
    Null,       \* a field that is null
    Malformed,  \* an input that is not a JSON object of the schema
    None

VARIABLES
    input,      \* the input of the planned tool, None when none is planned
    output      \* what ParseInput returned last

vars == <<input, output>>

\* The JSON objects the model can write.
Objects ==
    [command : Commands \cup {"", Absent, Null},
     nodes   : SUBSET Nodes \cup {Absent, Null},
     labels  : SUBSET Labels \cup {Absent, Null}]

InputTexts == Objects \cup {Malformed}

\* modeloutput.CompletionCommand.
CompletionCommand ==
    [command : Commands \cup {""}, nodes : SUBSET Nodes, labels : SUBSET Labels]

\* The errors: that of the parser, and the two of ParseInput.
Errors == [error : {"ParseError", "MissingCommand", "MissingNodesOrLabels"}]

Error(kind) == [error |-> kind]

\* A field as Go decodes it: a missing or null field leaves the zero value.
Decoded(field, zero) == IF field \in {Absent, Null} THEN zero ELSE field

\* Mutant of ParseJSONFromModel: a null field is handed on as it was written.
ParseJSONFromModelNullKept(o) ==
    [command |-> IF o.command = Absent THEN "" ELSE o.command,
     nodes   |-> IF o.nodes = Absent THEN {} ELSE o.nodes,
     labels  |-> IF o.labels = Absent THEN {} ELSE o.labels]

\* ParseJSONFromModel[CompletionCommand], for an input that is an object.
ParseJSONFromModel(o) ==
    [command |-> Decoded(o.command, ""),
     nodes   |-> Decoded(o.nodes, {}),
     labels  |-> Decoded(o.labels, {})]

\* Mutant of Targeted: nodes and labels are both asked for.
TargetedByBoth(c) == c.nodes # {} /\ c.labels # {}

\* len(output.Nodes) == 0 && len(output.Labels) == 0, negated.
Targeted(c) == c.nodes # {} \/ c.labels # {}

\* Mutant of ParseInput: an empty command is let through.
ParseInputAnyCommand(text) ==
    IF text = Malformed THEN Error("ParseError")
    ELSE IF ~Targeted(ParseJSONFromModel(text)) THEN Error("MissingNodesOrLabels")
    ELSE ParseJSONFromModel(text)

\* ParseInput: the three checks, in the order of the code.
ParseInput(text) ==
    IF text = Malformed THEN Error("ParseError")
    ELSE LET c == ParseJSONFromModel(text) IN
         CASE c.command = "" -> Error("MissingCommand")
           [] ~Targeted(c)   -> Error("MissingNodesOrLabels")
           [] OTHER          -> c

-----------------------------------------------------------------------------
Init == input = None /\ output = None

\* The model plans the tool with some input.
Plan(text) ==
    /\ input = None
    /\ input' = text
    /\ UNCHANGED output

\* The agent parses the input and leaves the loop.
Parse ==
    /\ input # None
    /\ output' = ParseInput(input)
    /\ input' = None

Next == (\E text \in InputTexts : Plan(text)) \/ Parse

Spec == Init /\ [][Next]_vars

-----------------------------------------------------------------------------
TypeOK ==
    /\ input \in InputTexts \cup {None}
    /\ \/ output \in Errors \cup {None}
       \/ \E c \in CompletionCommand : output = c

\* The inputs that name a command and somewhere to run it, whichever way
\* the rest is written.
Executable ==
    {o \in Objects : /\ o.command \in Commands
                     /\ \E f \in {o.nodes, o.labels} : f \notin {Absent, Null, {}}}

\* The agent suggests a command to the user exactly when the model's input
\* names a command and at least one node or label, and suggests what the
\* model wrote: ParseInput loses no field and lets no input through whose
\* command is missing, null or empty, or whose nodes and labels are all
\* missing, null or empty, in any combination of the three spellings.
SuggestsWhatCanRun ==
    [][input # None =>
          IF input \in Executable
          THEN /\ output' \in CompletionCommand
               /\ output'.command = input.command
               /\ \A f \in {"nodes", "labels"} :
                     input[f] \notin {Absent, Null} => output'[f] = input[f]
          ELSE output' \in Errors]_vars
=============================================================================
