------------------------------ MODULE AndroidDumps ------------------------------
(* The parsers of what a device prints (android/adb/adapters), each asked by  *)
(* the inspector of one command (query.py). A text is a sequence of lines; a  *)
(* line is a function from the patterns that are found in it to what they     *)
(* capture, so that a line in a form no pattern knows is noise, and one that  *)
(* is no "text" is blank. A parser answers <<value>>, or <<>> when it raises. *)
EXTENDS Integers, Sequences, FiniteSets, SequencesExt

CONSTANTS Users, Packages, Displays, Windows   \* identities that occur on a device

ASSUME DumpsAssumption ==
    /\ IsFiniteSet(Users) /\ IsFiniteSet(Packages) /\ IsFiniteSet(Displays) /\ IsFiniteSet(Windows)
    /\ Users \subseteq Nat /\ Displays \subseteq Nat /\ "none" \notin Packages \cup Windows

VARIABLES
    printed,  \* <<>>, or [command, about, facts, form, lines]: a command that ran, what it
              \* was asked about, what was so on the device, how it was printed
    inspected \* <<>>, or what the inspector gave
dumpVars == <<printed, inspected>>

DumpInit == printed = <<>> /\ inspected = <<>>

Nothing == <<>>
Noise == [noise |-> TRUE]
------------------------------------------------------------------------------
(* Patterns.                                                                  *)
Holds(line, pattern) == pattern \in DOMAIN line
Holding(lines, pattern) == {i \in DOMAIN lines : Holds(lines[i], pattern)}
FindAll(lines, pattern) ==
    FlattenSeq([i \in DOMAIN lines |->
        IF Holds(lines[i], pattern) THEN <<lines[i][pattern]>> ELSE <<>>])
Captured(lines, pattern, i) == <<lines[i][pattern]>>
Search(lines, pattern) ==
    LET at == Holding(lines, pattern) IN
    IF at = {} THEN Nothing ELSE Captured(lines, pattern, Min(at))
SearchLast(lines, pattern) ==
    LET at == Holding(lines, pattern) IN
    IF at = {} THEN Nothing ELSE Captured(lines, pattern, Max(at))
Distinct(s) == IsInjective(s)

ParseBoot(lines) ==
    IF lines = <<>> THEN <<"booting">>
    ELSE IF Len(lines) = 1 /\ Holds(lines[1], "number") /\ lines[1].number \in {0, 1}
         THEN <<IF lines[1].number = 1 THEN "booted" ELSE "booting">> ELSE Nothing

ParseBuildInfo(lines) ==
    IF Len(lines) = 3 /\ Holds(lines[1], "number")
       /\ Holds(lines[2], "text") /\ Holds(lines[3], "text")
    THEN <<<<lines[1].number, lines[2].text, lines[3].text>>>> ELSE Nothing

ParseCurrentUser(lines) ==
    IF Len(lines) = 1 /\ Holds(lines[1], "number") THEN <<lines[1].number>> ELSE Nothing

Phases == {"BOOTING", "RUNNING_LOCKED", "RUNNING_UNLOCKING", "RUNNING_UNLOCKED", "STOPPING",
           "SHUTDOWN"}

(* The user a row is about must be the user that was asked for.               *)
ParseUserState(lines, user) ==
    IF Len(lines) = 1 /\ Holds(lines[1], "not_started")
    THEN IF lines[1].not_started = user THEN <<"not_started">> ELSE Nothing
    ELSE LET state == Search(lines, "user_state") IN
         IF state = Nothing THEN Nothing
         ELSE IF state[1][1] = user /\ state[1][2] \in Phases THEN <<state[1][2]>> ELSE Nothing

EnabledStates == 0..4
PackageState(row) ==
    IF {"installed", "hidden", "suspended"} \subseteq DOMAIN row.flags
       /\ row.enabled # Nothing /\ row.enabled[1] \in EnabledStates
    THEN <<<<row.flags, row.enabled[1]>>>> ELSE Nothing
ParsePackageState(lines, user) ==
    LET mine == {i \in Holding(lines, "package_user") : lines[i].package_user.user = user} IN
    IF Holding(lines, "not_found") # {} THEN <<"not_installed">>
    ELSE IF mine = {} THEN Nothing ELSE PackageState(lines[Min(mine)].package_user)

ParseLauncher(lines, package) ==
    LET candidates == Holding(lines, "component") IN
    IF Holding(lines, "no_activity") = DOMAIN lines THEN <<"none">>
    ELSE IF Cardinality(candidates) # 1 THEN Nothing
    ELSE LET component == lines[Min(candidates)].component IN
         IF component[1] = package THEN <<component>> ELSE Nothing

ParsePower(lines) ==
    IF Holding(lines, "mWakefulness") # {} THEN Search(lines, "mWakefulness")
    ELSE Search(lines, "wakefulness")
ParseKeyguard(lines) == Search(lines, "mKeyguardShowing")
------------------------------------------------------------------------------
(* A row that looks like a user counts, whether or not it can be read.        *)
ParseUsers(lines) ==
    LET rows == FindAll(lines, "user") IN
    IF /\ Holding(lines, "odd_user") = {} /\ SearchLast(lines, "users") = <<Len(rows)>>
       /\ Distinct([i \in DOMAIN rows |-> rows[i].id])
    THEN <<rows>> ELSE Nothing

ParsePhysical(lines) ==
    LET rows == FindAll(lines, "physical") IN IF rows = <<>> THEN Nothing ELSE <<rows>>
------------------------------------------------------------------------------
(* The parsers that read a text line by line: what the loop of each does with *)
(* a line, given what was found in the lines before it; a line that raises    *)
(* ends the loop.                                                             *)
NotParsed == [bad |-> TRUE]

(* The display of a row is that of the section it is in.                      *)
ResumedLine(found, line) ==
    IF Holds(line, "display")
    THEN [found EXCEPT !.display = <<line.display>>, !.recognized = TRUE]
    ELSE IF Holds(line, "title") THEN [found EXCEPT !.recognized = TRUE]
    ELSE IF Holds(line, "odd_resumed") THEN NotParsed
    ELSE IF ~Holds(line, "resumed") THEN found
    ELSE IF found.display = Nothing THEN NotParsed
    ELSE [found EXCEPT !.rows = Append(@, <<found.display[1], line.resumed>>)]

(* known: <<>> or the rank of the row known so far of the display.            *)
Replaces(known, row) == known = Nothing \/ (IF row.override THEN 2 ELSE 1) >= known[1]

InfoComplete(row, id) ==
    id # Nothing /\ row.size # Nothing /\ row.rotation \in 0..3 /\ row.density # Nothing
DisplayRow(found, row, id) ==
    IF ~InfoComplete(row, id) THEN NotParsed
    ELSE IF ~Replaces(found.rank[id[1]], row) THEN found
    ELSE [found EXCEPT !.info[id[1]] = <<[size |-> row.size, rotation |-> row.rotation]>>,
                       !.rank[id[1]] = <<IF row.override THEN 2 ELSE 1>>]
DisplayInfo(found, line) ==
    IF ~Holds(line, "info") THEN found
    ELSE DisplayRow(found, line.info, IF line.info.id # Nothing THEN line.info.id ELSE found.display)
DisplayLine(found, line) ==
    IF Holds(line, "section") THEN [found EXCEPT !.display = <<line.section>>]
    ELSE DisplayInfo(IF Holds(line, "mDisplayId")
                     THEN [found EXCEPT !.display = <<line.mDisplayId>>] ELSE found, line)

(* The block of a window is its header and the lines up to the next one.      *)
WindowLine(found, line) ==
    IF Holds(line, "window") THEN [found EXCEPT !.blocks = Append(@, <<line>>)]
    ELSE IF found.blocks = <<>> THEN found
    ELSE [found EXCEPT !.blocks[Len(found.blocks)] = Append(@, line)]

Kinds == {"status_bar", "navigation_bar", "display_cutout", "ime"}
InsetLine(found, inset) ==
    IF found.display # <<found.asked>> THEN found
    ELSE IF inset.type = Nothing THEN NotParsed
    ELSE IF inset.type[1] \notin Kinds THEN found
    ELSE IF inset.frame = Nothing \/ inset.visible = Nothing THEN NotParsed
    ELSE [found EXCEPT !.rows = Append(@, <<inset.type[1], inset.frame[1], inset.visible[1]>>)]
OcclusionLine(found, line) ==
    IF Holds(line, "display")
    THEN [found EXCEPT !.display = <<line.display>>, !.seen = @ \cup {line.display}]
    ELSE IF Holds(line, "inset") THEN InsetLine(found, line.inset) ELSE found

LineRead(command, found, line) ==
    CASE found.bad -> found
      [] command = "resumed" /\ ~found.bad -> ResumedLine(found, line)
      [] command = "displays" /\ ~found.bad -> DisplayLine(found, line)
      [] command = "windows" /\ ~found.bad -> WindowLine(found, line)
      [] command = "occlusions" /\ ~found.bad -> OcclusionLine(found, line)
LinesRead(command, found, lines) ==
    LET upTo[k \in 0..Len(lines)] ==
            IF k = 0 THEN found ELSE LineRead(command, upTo[k - 1], lines[k])
    IN  upTo[Len(lines)]

ParseResumed(lines) ==
    LET found == LinesRead("resumed", [bad |-> FALSE, display |-> Nothing, recognized |-> FALSE,
                                       rows |-> <<>>], lines)
    IN  IF ~found.bad /\ found.recognized THEN <<found.rows>> ELSE Nothing

ParseDisplays(lines) ==
    LET nothing == [d \in Displays |-> Nothing]
        found == LinesRead("displays", [bad |-> FALSE, display |-> Nothing, info |-> nothing,
                                        rank |-> nothing], lines)
    IN  IF ~found.bad /\ found.info # nothing THEN <<found.info>> ELSE Nothing

(* Each fact of a window is the first of its kind in the block.               *)
Visibilities == {0, 4, 8}
WindowFacts(header, focus, display, frame, visibility, surface, package) ==
    IF <<>> \in {display, frame, visibility, surface} THEN Nothing
    ELSE IF visibility[1] \notin Visibilities THEN Nothing
    ELSE <<[id |-> header.id, display |-> display[1], frame |-> frame[1],
            visibility |-> visibility[1], surface |-> surface[1], focused |-> focus = <<header.id>>,
            package |-> IF header.component # Nothing THEN header.component ELSE package]>>
WindowOf(block, focus) ==
    WindowFacts(block[1].window, focus, Search(block, "mDisplayId"), Search(block, "frame"),
                Search(block, "mViewVisibility"), Search(block, "mHasSurface"),
                Search(block, "package"))
WindowsOf(windows, focus) ==
    LET rows == [i \in DOMAIN windows |-> windows[i][1]]
        ids == [i \in DOMAIN rows |-> rows[i].id]
    IN  IF windows # <<>> /\ Distinct(ids) /\ (focus # Nothing => Contains(ids, focus[1]))
        THEN <<rows>> ELSE Nothing
WindowBlocks(blocks, focus) ==
    LET windows == [k \in DOMAIN blocks |-> WindowOf(blocks[k], focus)]
    IN  IF Contains(windows, Nothing) THEN Nothing ELSE WindowsOf(windows, focus)
ParseWindows(lines) ==
    WindowBlocks(LinesRead("windows", [bad |-> FALSE, blocks |-> <<>>], lines).blocks,
                 Search(lines, "mCurrentFocus"))

ParseOcclusions(lines, asked) ==
    LET found == LinesRead("occlusions", [bad |-> FALSE, asked |-> asked, display |-> Nothing,
                                          seen |-> {}, rows |-> <<>>], lines)
    IN  IF found.bad \/ found.seen = {} THEN Nothing
        ELSE <<IF asked \in found.seen THEN <<found.rows>> ELSE Nothing>>
------------------------------------------------------------------------------
(* The device: what it prints of what is so. A text is in the "known" form,   *)
(* has a row in an "odd" one, or a "hidden" section: its header is in a form  *)
(* no pattern knows. Of a "partial" text the facts are those of the rows that *)
(* are in a known form.                                                       *)
Report(command, about, form, facts, lines) ==
    [command |-> command, about |-> about, form |-> form, facts |-> facts, lines |-> lines]
SingleReport(command, known, odd) ==
    {Report(command, 0, "known", k[1], k[2]) : k \in known}
    \cup {Report(command, 0, "odd", 0, o) : o \in odd}

NumberLine(n) == [number |-> n]
TextLine(t) == [text |-> t]
SingleReports ==
    SingleReport("boot",
        {<<"booted", <<NumberLine(1)>>>>, <<"booting", <<NumberLine(0)>>>>, <<"booting", <<>>>>},
        {<<Noise>>, <<NumberLine(2)>>})
    \cup SingleReport("build",
        {<<<<30, "11", "f">>, <<NumberLine(30), TextLine("11"), TextLine("f")>>>>},
        {<<NumberLine(30), Noise, TextLine("f")>>, <<NumberLine(30), TextLine("11")>>, <<Noise>>})
    \cup SingleReport("current_user", {<<u, <<NumberLine(u)>>>> : u \in Users}, {<<Noise>>, <<>>})
    \cup SingleReport("power",
        {<<w, <<Noise, [mWakefulness |-> w], [wakefulness |-> w]>>>> : w \in {"Awake", "Dozing"}}
        \cup {<<"Asleep", <<[wakefulness |-> "Asleep"]>>>>}, {<<Noise>>})
    \cup SingleReport("keyguard",
        {<<b, <<Noise, [mKeyguardShowing |-> b]>>>> : b \in BOOLEAN}, {<<>>})
KnownIf(b) == IF b THEN "known" ELSE "odd"
UserReport(u, v) ==
    {Report("user_state", u, KnownIf(u = v), "not_started", <<[not_started |-> v]>>),
     Report("user_state", u, KnownIf(u = v), "STOPPING",
            <<Noise, [user_state |-> <<v, "STOPPING">>]>>),
     Report("user_state", u, "odd", 0, <<[user_state |-> <<u, "FROZEN">>]>>)}
UserReports == UNION {UserReport(u, v) : u \in Users, v \in Users}

Flags(b) == [installed |-> b, hidden |-> ~b, suspended |-> FALSE]
PackageRow(u, b, enabled) ==
    [package_user |-> [user |-> u, flags |-> Flags(b), enabled |-> <<enabled>>]]
PackageFacts(b) == <<Flags(b), IF b THEN 1 ELSE 0>>
PackageReport(u, v, w) ==
    {Report("package", u, KnownIf(u \in {v, w}), PackageFacts(u = v),
            <<Noise, PackageRow(v, TRUE, 1), PackageRow(w, FALSE, 0)>>),
     Report("package", u, "odd", 0, <<PackageRow(u, TRUE, 9)>>),
     Report("package", u, "known", "not_installed", <<[not_found |-> TRUE]>>)}
LauncherReport(p, q) ==
    {Report("launcher", p, KnownIf(p = q), <<q, "Main">>, <<Noise, [component |-> <<q, "Main">>]>>),
     Report("launcher", p, "known", "none", <<[no_activity |-> TRUE]>>),
     Report("launcher", p, "odd", 0, <<Noise>>)}
PackageReports == UNION {PackageReport(u, v, w) : u \in Users, v \in Users, w \in Users}
LauncherReports == UNION {LauncherReport(p, q) : p \in Packages, q \in Packages}

(* A section of a text: its header, in its known form unless it is hidden,    *)
(* then its rows.                                                             *)
Section(hidden, header, rows) == <<IF hidden THEN Noise ELSE header>> \o rows
Lists(S) == {q \in SeqOf(S, Cardinality(S)) : Distinct(q)}
NoDisplay == -1
FormOf(hidden, odd) == IF hidden THEN "hidden" ELSE IF odd THEN "odd" ELSE "known"

UserRows(users, r) == [i \in DOMAIN users |-> [id |-> users[i], running |-> users[i] = r]]
UsersReport(users, r, n) ==
    Report("users", 0, KnownIf(n = Len(users)), UserRows(users, r),
           <<[users |-> n]>> \o [i \in DOMAIN users |-> [user |-> UserRows(users, r)[i]]])
UsersReports ==
    {UsersReport(users, r, n) :
        users \in Lists(Users), r \in Users, n \in 0..Cardinality(Users)}
    \cup {Report("users", 0, "odd", 0, lines) : lines \in {<<>>, <<[users |-> 1], [odd_user |-> TRUE]>>}}

(* On each display resumed activities of some packages.                       *)
ResumedFacts(d, packages) == [j \in DOMAIN packages |-> <<d, packages[j]>>]
ResumedRows(packages, odd) ==
    [j \in DOMAIN packages |-> IF packages[j] = odd THEN [odd_resumed |-> TRUE]
                               ELSE [resumed |-> packages[j]]]
ResumedReport(displays, on, hidden, odd) ==
    Report("resumed", 0,
           FormOf(Contains(displays, hidden), \E i \in DOMAIN displays : Contains(on[displays[i]], odd)),
           FlattenSeq([i \in DOMAIN displays |-> ResumedFacts(displays[i], on[displays[i]])]),
           <<[title |-> TRUE]>> \o FlattenSeq([i \in DOMAIN displays |->
               Section(displays[i] = hidden, [display |-> displays[i]],
                       ResumedRows(on[displays[i]], odd))]))
ResumedReports ==
    {ResumedReport(displays, on, hidden, odd) :
        displays \in Lists(Displays), on \in [Displays -> Lists(Packages)],
        hidden \in Displays \cup {NoDisplay}, odd \in Packages \cup {"none"}}

(* Of a display its base and, in either order, what overrides it; the row     *)
(* has an id of its own or relies on the section.                             *)
InfoRow(id, rotation, override) ==
    [info |-> [id |-> id, size |-> <<1, 2>>, rotation |-> rotation, density |-> <<1>>,
               override |-> override]]
InfoRows(id, overridden, late, rotation) ==
    IF ~overridden THEN <<InfoRow(id, 0, FALSE)>>
    ELSE IF late THEN <<InfoRow(id, 0, FALSE), InfoRow(id, rotation, TRUE)>>
    ELSE <<InfoRow(id, rotation, TRUE), Noise, InfoRow(id, 0, FALSE)>>
InfoFact(overridden, rotation) ==
    <<[size |-> <<1, 2>>, rotation |-> IF overridden THEN rotation ELSE 0]>>
DisplayReport(displays, hidden, overridden, late, embedded, rotation) ==
    Report("displays", 0,
           FormOf(~embedded /\ Contains(displays, hidden),
                  displays = <<>> \/ (rotation > 3 /\ \E d \in overridden : Contains(displays, d))),
           [d \in Displays |-> IF Contains(displays, d) THEN InfoFact(d \in overridden, rotation)
                               ELSE Nothing],
           FlattenSeq([i \in DOMAIN displays |->
               Section(displays[i] = hidden, [section |-> displays[i]],
                       InfoRows(IF embedded THEN <<displays[i]>> ELSE Nothing,
                                displays[i] \in overridden, late, rotation))]))
Legible(displays, odd) ==
    FlattenSeq([i \in DOMAIN displays |-> IF displays[i] \in odd THEN <<>> ELSE <<displays[i]>>])
PhysicalRows(displays, odd) ==
    [i \in DOMAIN displays |-> IF displays[i] \in odd THEN Noise ELSE [physical |-> displays[i]]]
PhysicalReport(displays, odd) ==
    Report("physical", 0,
           IF Legible(displays, odd) = <<>> THEN "odd"
           ELSE IF \E i \in DOMAIN displays : displays[i] \in odd THEN "partial" ELSE "known",
           Legible(displays, odd), <<Noise>> \o PhysicalRows(displays, odd))
DisplayReports ==
    {DisplayReport(displays, hidden, overridden, late, embedded, rotation) :
        displays \in Lists(Displays), hidden \in Displays \cup {NoDisplay},
        overridden \in SUBSET Displays, late \in BOOLEAN, embedded \in BOOLEAN, rotation \in {1, 4}}
    \cup {PhysicalReport(displays, odd) : displays \in Lists(Displays), odd \in SUBSET Displays}

(* A window has a header, its facts and one that is printed once more; the    *)
(* focus is named last.                                                       *)
WindowRows(w, lacking) ==
    <<[mDisplayId |-> 0, package |-> w], IF lacking THEN Noise ELSE [frame |-> w],
      [mViewVisibility |-> 0, mHasSurface |-> TRUE], [mDisplayId |-> 1]>>
WindowFact(w, focus) ==
    [id |-> w, display |-> 0, frame |-> w, visibility |-> 0, surface |-> TRUE,
     focused |-> focus = w, package |-> <<w>>]
WindowReport(windows, focus, hidden, lacking) ==
    Report("windows", 0,
           FormOf(Contains(windows, hidden),
                  \/ windows = <<>> \/ Contains(windows, lacking)
                  \/ focus # "none" /\ ~Contains(windows, focus)),
           [i \in DOMAIN windows |-> WindowFact(windows[i], focus)],
           FlattenSeq([i \in DOMAIN windows |->
               Section(windows[i] = hidden, [window |-> [id |-> windows[i], component |-> Nothing]],
                       WindowRows(windows[i], windows[i] = lacking))])
           \o (IF focus = "none" THEN <<>> ELSE <<[mCurrentFocus |-> focus]>>))
WindowReports ==
    {WindowReport(windows, focus, hidden, lacking) :
        windows \in Lists(Windows), focus \in Windows \cup {"none"}, hidden \in Windows \cup {"none"},
        lacking \in Windows \cup {"none"}}

Inset(type, visible) == [inset |-> [type |-> type, frame |-> <<1>>, visible |-> visible]]
OcclusionReport(displays, asked, hidden, odd) ==
    Report("occlusions", asked,
           FormOf(Contains(displays, hidden),
                  displays = <<>> \/ (asked = odd /\ Contains(displays, asked))),
           IF Contains(displays, asked) THEN <<<<<<"ime", 1, TRUE>>>>>> ELSE Nothing,
           FlattenSeq([i \in DOMAIN displays |->
               Section(displays[i] = hidden, [display |-> displays[i]],
                       <<Inset(<<"mandatory_gestures">>, Nothing),
                         Inset(<<"ime">>, IF displays[i] = odd THEN Nothing
                                          ELSE <<displays[i] = asked>>)>>)]))
OcclusionReports ==
    {OcclusionReport(displays, asked, hidden, odd) :
        displays \in Lists(Displays), asked \in Displays, hidden \in Displays \cup {NoDisplay},
        odd \in Displays \cup {NoDisplay}}

Dump ==
    /\ printed = <<>>
    /\ \/ \E r \in SingleReports \cup UserReports : printed' = <<r>>
       \/ \E r \in PackageReports \cup LauncherReports : printed' = <<r>>
       \/ \E r \in UsersReports \cup ResumedReports : printed' = <<r>>
       \/ \E r \in DisplayReports \cup WindowReports \cup OcclusionReports : printed' = <<r>>
    /\ UNCHANGED inspected

(* The inspector of a command, and its parser.                                *)
Parse(r) ==
    CASE r.command = "boot" -> ParseBoot(r.lines)
      [] r.command = "build" -> ParseBuildInfo(r.lines)
      [] r.command = "current_user" -> ParseCurrentUser(r.lines)
      [] r.command = "power" -> ParsePower(r.lines)
      [] r.command = "keyguard" -> ParseKeyguard(r.lines)
      [] r.command = "user_state" -> ParseUserState(r.lines, r.about)
      [] r.command = "package" -> ParsePackageState(r.lines, r.about)
      [] r.command = "launcher" -> ParseLauncher(r.lines, r.about)
      [] r.command = "users" -> ParseUsers(r.lines)
      [] r.command = "resumed" -> ParseResumed(r.lines)
      [] r.command = "displays" -> ParseDisplays(r.lines)
      [] r.command = "physical" -> ParsePhysical(r.lines)
      [] r.command = "windows" -> ParseWindows(r.lines)
      [] r.command = "occlusions" -> ParseOcclusions(r.lines, r.about)
Inspect ==
    /\ printed # <<>> /\ inspected = <<>>
    /\ inspected' = <<Parse(printed[1])>>
    /\ UNCHANGED printed

DumpNext == Dump \/ Inspect
------------------------------------------------------------------------------
(* What an inspector answers is all that is so on the device and nothing      *)
(* else: a row it cannot read is an error and never left out, of what was     *)
(* asked about nothing else is taken for the answer, an override is not       *)
(* undone by the row it overrides (_runtime_parsers.py 88-275,                *)
(* _display_parsers.py 33-117, _window_parsers.py 60-216). There are two      *)
(* exceptions. A physical display whose row is in an unknown form is left out *)
(* without a word: the answer is the other ones, in their order, and an error *)
(* only if there are none (_display_parsers.py 120-149). And nothing is       *)
(* promised of a text with a section whose header is in an unknown form.      *)
InspectionExact ==
    inspected # <<>> =>
        CASE printed[1].form \in {"known", "partial"} -> inspected[1] = <<printed[1].facts>>
          [] printed[1].form = "odd" -> inspected[1] = Nothing
          [] OTHER -> TRUE
==============================================================================
