------------------------------ MODULE SetupLog ------------------------------
(***************************************************************************)
(* internal/setupapi and the host's time zone: the device installation log,  *)
(* a line at a time.  A line is what the patterns make of it: the heading of *)
(* a section, one of its times, its exit, or a field.  A time is in minutes. *)
(***************************************************************************)
EXTENDS WinTime

\* A registry value is unsigned; one of these many is the width it is scaled to.
Width == 4096
\* signedMinutes.
SignedMinutes(stored) ==
  LET low == stored % Width IN IF low >= Width \div 2 THEN low - Width ELSE low

\* ReadTimeZone, of a key that is there, and ObservesDaylightSaving.
ReadTimeZone(stored) ==
  [found |-> TRUE, bias |-> SignedMinutes(stored.bias), standard |-> SignedMinutes(stored.standardBias),
   daylight |-> SignedMinutes(stored.daylightBias),
   observes |-> /\ SignedMinutes(stored.daylightBias) # 0
                /\ stored.standardStart # 0 /\ stored.daylightStart # 0
                /\ ~stored.dynamicDisabled]
NoZone == [found |-> FALSE, bias |-> 0, standard |-> 0, daylight |-> 0, observes |-> FALSE]

\* Mutant: a zone offers its daylight reading whether or not its rules observe it.
CandidatesByBias(local, zone) ==
  IF ~zone.found \/ local = NoTime THEN <<>>
  ELSE SeasonalCandidates(local, zone.bias + zone.standard, zone.daylight)

\* candidates: the readings of a local time, one where the host never changes its clock.
Candidates(local, zone) ==
  IF ~zone.found \/ local = NoTime THEN <<>>
  ELSE SeasonalCandidates(local, zone.bias + zone.standard,
                          IF zone.observes THEN zone.daylight ELSE 0)

\* seasonalReadings: the columns they are stored in.
SeasonalReadings(candidates) ==
  LET n == Len(candidates) IN
  [start |-> IF n > 0 THEN candidates[1].utc ELSE NoTime,
   alternate |-> IF n > 1 THEN candidates[2].utc ELSE NoTime,
   basis |-> [k \in DOMAIN candidates |-> candidates[k].basis], ambiguous |-> n > 1]

-----------------------------------------------------------------------------
\* newSection: what a heading says was done, and to what.
NewSection(number, heading) ==
  [line |-> number, operation |-> heading.operation, target |-> heading.target,
   kind |-> heading.kind, start |-> NoTime, end |-> NoTime, startUTC |-> <<>>, endUTC |-> <<>>,
   exit |-> FALSE, parent |-> ""]

\* What is open, and what was made of those that closed.
NoSection == [line |-> 0]
Scanned(sections, notUSB, unterminated, current) ==
  [sections |-> sections, notUSB |-> notUSB, unterminated |-> unterminated, current |-> current]

\* Mutant: a section that is open when the next begins is dropped.
KeepClosed(scan, section, usb, closed) ==
  IF ~closed THEN [scan EXCEPT !.unterminated = @ + 1]
  ELSE IF section.target \in usb \/ section.parent \in usb
  THEN [scan EXCEPT !.sections = Append(@, section)] ELSE [scan EXCEPT !.notUSB = @ + 1]

\* appendIfRelevant, of a section that was closed, or was left open.
Keep(scan, section, usb, closed) ==
  LET counted == IF closed THEN scan ELSE [scan EXCEPT !.unterminated = @ + 1] IN
  IF section.target \in usb \/ section.parent \in usb
  THEN [counted EXCEPT !.sections = Append(@, section)] ELSE [counted EXCEPT !.notUSB = @ + 1]

\* A line within a section.
BodyLine(section, line, zone) ==
  CASE line.is = "start" -> [section EXCEPT !.start = line.time, !.startUTC = Candidates(line.time, zone)]
    [] line.is = "end" -> [section EXCEPT !.end = line.time, !.endUTC = Candidates(line.time, zone)]
    [] line.is = "exit" -> [section EXCEPT !.exit = TRUE]
    [] line.is = "parent" /\ section.parent = "" -> [section EXCEPT !.parent = line.device]
    [] OTHER -> section

Line(scan, number, line, usb, zone) ==
  LET section == BodyLine(scan.current, line, zone) IN
  IF line.is = "header"
  THEN [(IF scan.current = NoSection THEN scan ELSE Keep(scan, scan.current, usb, FALSE))
          EXCEPT !.current = NewSection(number, line)]
  ELSE IF scan.current = NoSection THEN scan
  ELSE IF line.is = "exit" THEN [Keep(scan, section, usb, TRUE) EXCEPT !.current = NoSection]
  ELSE [scan EXCEPT !.current = section]

\* Parse: a scan that ends early, at a line too long, keeps what it has.
ParseLog(lines, usb, zone) ==
  LET Upto[k \in 0 .. Len(lines)] ==
        IF k = 0 THEN Scanned(<<>>, 0, 0, NoSection)
        ELSE Line(Upto[k - 1], k, lines[k], usb, zone)
      ends == {k \in DOMAIN lines : lines[k].is = "too_long"}
      read == IF ends = {} THEN Len(lines) ELSE (CHOOSE k \in ends : \A m \in ends : k <= m) - 1
      last == Upto[read]
      whole == IF last.current = NoSection THEN last ELSE Keep(last, last.current, usb, FALSE)
  IN  [sections |-> whole.sections, notUSB |-> whole.notUSB, unterminated |-> whole.unterminated,
       counted |-> Len(whole.sections) + whole.notUSB, read |-> read, failed |-> ends # {}]
=============================================================================
