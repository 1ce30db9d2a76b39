------------------------------- MODULE Editors ------------------------------
(* The pages that hold what is being typed: the general settings, the variables and their  *)
(* text, the number input.                                                                 *)
EXTENDS Clients, Integers

CONSTANTS
    Domains, MaxReads,                                  \* SettingsPage
    EnvKeys, EnvValues, MaxEdits, EditorSaves, MaxFocus, MaxRivals,    \* VariablesEditor
    min_number, max_number, step_number, large_number, Drafts,   \* NumberField
    MaxTyped,                                           \* Dotenv
    EditorFaults, EditorCommands

\* The number input steps upwards between its limits.
ASSUME EditorsAssumption ==
    /\ min_number \in Int /\ max_number \in Int /\ min_number <= max_number
    /\ step_number \in Nat \ {0} /\ large_number \in Nat
    /\ Drafts \subseteq Int

VARIABLES
    stored_settings, loaded, draft_settings, phase, save_settings, removal, read, open,
    excused_settings, commands_settings, faults_settings, reads,
    server_variables, data_variables, query, text, writes, error_variables, staleRead, sent,
    excused_variables, edits_variables, focuses, faults_variables, rivals,
    current, draft_number, editing, editStart, hold, drag, given,
    typed

Settings == INSTANCE SettingsPage WITH
    MaxCommands <- EditorCommands, MaxFaults <- EditorFaults, stored <- stored_settings,
    draft <- draft_settings, save <- save_settings, excused <- excused_settings,
    commands <- commands_settings, faults <- faults_settings
Variables == INSTANCE VariablesEditor WITH
    Keys <- EnvKeys, Values <- EnvValues, MaxSaves <- EditorSaves, MaxFaults <- EditorFaults,
    server <- server_variables, data <- data_variables, error <- error_variables, excused <- excused_variables,
    edits <- edits_variables, faults <- faults_variables
Number == INSTANCE NumberField WITH
    min <- min_number, max <- max_number, step <- step_number, large <- large_number,
    draft <- draft_number
Text == INSTANCE Dotenv

settingsVars == <<stored_settings, loaded, draft_settings, phase, save_settings, removal, read,
    open, excused_settings, commands_settings, faults_settings, reads>>
variablesVars == <<server_variables, data_variables, query, text, writes, error_variables,
    staleRead, sent, excused_variables, edits_variables, focuses, faults_variables, rivals>>
numberVars == <<current, draft_number, editing, editStart, hold, drag, given>>
dotenvVars == <<typed>>
editorsVars == <<client, settingsVars, variablesVars, numberVars, dotenvVars>>

\* A model that this behaviour is not about.
NoSettings ==
    stored_settings = "none" /\ loaded = "none" /\ draft_settings = "none" /\ phase = "none" /\
    save_settings = "none" /\ removal = "none" /\ read = "none" /\ open = "none" /\
    excused_settings = "none" /\ commands_settings = "none" /\ faults_settings = "none" /\
    reads = "none"
NoVariables ==
    server_variables = "none" /\ data_variables = "none" /\ query = "none" /\ text = "none" /\
    writes = "none" /\ error_variables = "none" /\ staleRead = "none" /\ sent = "none" /\
    excused_variables = "none" /\ edits_variables = "none" /\ focuses = "none" /\
    faults_variables = "none" /\ rivals = "none"
NoNumber ==
    current = "none" /\ draft_number = "none" /\ editing = "none" /\ editStart = "none" /\
    hold = "none" /\ drag = "none" /\ given = "none"
NoText ==
    typed = "none"

EditorsInit ==
    /\ IF client = "settings" THEN Settings!Init ELSE NoSettings
    /\ IF client = "variables" THEN Variables!Init ELSE NoVariables
    /\ IF client = "number" THEN Number!Init ELSE NoNumber
    /\ IF client = "dotenv" THEN Text!Init ELSE NoText

EditorsNext ==
    /\ client' = client
    /\ IF client = "settings" THEN Settings!Next ELSE UNCHANGED settingsVars
    /\ IF client = "variables" THEN Variables!Next ELSE UNCHANGED variablesVars
    /\ IF client = "number" THEN Number!Next ELSE UNCHANGED numberVars
    /\ IF client = "dotenv" THEN Text!Next ELSE UNCHANGED dotenvVars

EditorsSpec == EditorsInit /\ [][EditorsNext]_editorsVars

-----------------------------------------------------------------------------
\* Every model's own type invariant.
EditorsTypes ==
    /\ client = "settings" => Settings!TypeOK
    /\ client = "variables" => Variables!TypeOK
    /\ client = "number" => Number!TypeOK
    /\ client = "dotenv" => Text!TypeOK

\* General settings: a page at rest shows the stored settings, however its save, its token
\* removal and their re-reads overlapped (system.settings.index.tsx).
QuietMeansStored == client = "settings" => Settings!QuietMeansStored

\* General settings: removing the token never saves an unsaved hostname
\* (system.settings.index.tsx).
RemovalKeepsTheHostname == [][client = "settings" => Settings!RemovalKeepsTheHostname]_editorsVars

\* Variables: a card with no unsaved change and nothing under way shows the stored set
\* (env-editor.tsx).
CleanMeansStored == client = "variables" => Variables!CleanMeansStored

\* Variables: only the reader changes a text that was not sent (env-editor.tsx).
TypingSurvives == [][client = "variables" => Variables!TypingSurvives]_editorsVars

\* Number input: no order of typing, holding and dragging leaves a value off its grid or out
\* of its limits (number-field.tsx).
ValueIsReachable == client = "number" => Number!ValueIsReachable

\* Variables: whatever text or value is written into the editor's text reads back as it was,
\* and the table's rewriting keeps it (lib/dotenv.ts).
EveryValueRoundTrips == client = "dotenv" => Text!EveryValueRoundTrips /\ Text!TableKeepsTheText
=============================================================================
