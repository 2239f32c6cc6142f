# hue_scripts in TLA+

A verification development of hue_scripts, a collection of Tcl, shell, Python and
C programs that drive a Philips Hue bridge, directly or through the Hue cloud,
from a shell, a crontab or a HomeMatic CCU.  There is no server: every script is a
process of its own, and what they share is a few files, the bridge and the cloud.
So the questions asked here are about files that are read and rewritten without
locks, caches that are believed for 30 days, configuration that is flipped and
flipped back, and calls that fail half-way.

## The system

| part | source | state it keeps | operations |
|---|---|---|---|
| Tcl core, OAuth | `hue.inc.core.tcl` | `env/<appid>/hue_remote_env`; tokens and expiry in each process | envLoad, ensureFreshAccessToken, curlAuthArgs |
| Tcl core, configuration | `hue.inc.core.tcl` | `config.hue.tcl`, `hue_config.tcl`; mode, key, key override in each process | config, config set/get, loadConfig |
| remote.sh | `remote.sh` | the same `hue_remote_env` | gettoken, token, newtoken, refreshtoken |
| users | `hue.inc.users.tcl` | cache of rows (30 days), file of client keys | listUsers, create, delete, deleteByDevice |
| groups | `hue.inc.groups.tcl` | tables and cache file (30 days), index of preferred names | lists, lookups, edits of lights and name |
| lights | `hue.inc.lights.tcl` | tables and cache file (30 days) | lookups, setLight over v1 and v2 |
| sensors, FoH | `hue.inc.sensors.tcl`, `hue.inc.foh.tcl` | cache of 300 s; what a watch has seen last | lists, watches |
| FoH rules | `hue.inc.diff/foh_manage.sh`, `foh_to_hue_rules.jq` | rules, a rocker sensor and a resource link at the bridge | read, plan, apply, delete |
| light states | `LightState*.tcl`, `LightOnOff.tcl` | saved states, in files or CCU variables | save, restore, delete, switch, toggle |
| effects | `test.py` | the main thread, a monitor thread, a signal handler, two stop events | rainbow, stroboscope, flashing, bright, randombright |
| legacy library | `hue.inc.tcl` | resource files | get, put, post, delete; watch for changed lights |
| JSON filter | `source/jsondump.c`, `source/jsmn.h` | the text so far, parser and tokens, two global names | read, parse, enlarge, dump |

How they interact.  Every remote request of the Tcl modules goes through
`curlAuthArgs` or `curlBearerArgs`, which re-read the environment and refresh the
token first.  `remote.sh` does the same by its own means on the same file.  The
users module calls `::hue::config set` to read the whitelist under one key after
another and so writes the shared `hue_config.tcl`.  The groups, lights and sensors
modules fill tables from the bridge and copy them to cache files which the next
process sources.  An error is either `softError`, which ends the process with exit
code 0 (no `catch` stops it), or a Tcl error, typically of `exec curl`, which some
callers catch and most do not.

The older scripts go through `hueGet` and `huePut` of `hue.inc.tcl`, one request each,
and learn what the bridge has from `jsondump`, which makes Tcl assignments of JSON.
`foh_manage.sh` calls one-line Tcl scripts for its requests.  `test.py` stands alone: a
thread that polls the lights and the handler of SIGINT ask its main thread to stop.

What is hard: two processes at any point of a read-modify-write of a file; a file
that is truncated before it is written; an answer that gets lost after it has taken
effect; a process killed between two writes; the order in which a configuration is
saved, changed and restored; tables that are out of date when they are edited; a
signal at any point of a program that takes locks; a script of ten requests that is
killed after any of them and run again.
`PROJECT.json` lists these hazards with the line where each bites.

What makes each part correct, in a sentence: the login survives whatever processes
do to each other; an expiry belongs to the token beside it; a user is shown under
his own names, and his client key is kept until he is deleted; a request goes out in
the mode and under the key it is meant for; a table differs from the bridge only by what
happened behind its back; an edit costs a group nothing it did not ask for; a light
is put back as it was, or is visibly not; rules of a switch are neither doubled nor
orphaned; an effect ends when it is told to, with the stream closed; what is printed
of a document is the document.

## The modules

    TokenStore            file, clock, cloud
      HueToken            the Tcl client          MCHueToken        HueTokenProofs
      RemoteSh            remote.sh
        TokenFleet        both on one file        MCTokenFleet      HueTokenProofs
    HueConfig             mode, key, override
      HueUsers            users and client keys   MCHueUsers        HueUsersProofs
    CachedTable           abstract: a table that knows the truth or nothing
      HueGroups           groups, implement it    MCHueGroups       HueGroupsProofs
    FohWatch              the watch of switches   MCFohWatch        FohWatchProofs
    FohManage             the rules of a switch   MCFohManage       FohManageProofs
    LightState            saved states, switching MCLightState      LightStateProofs
    EffectStreamer        test.py                 MCEffectStreamer  EffectStreamerProofs
    OnePass               abstract: jsmn with the whole text before it
      Jsmn                jsmn, a symbol a step
        JsonReader        the loop of jsondump, implements it         JsonReaderProofs
          JsonDump        and what it prints      MCJsonDump

**TokenStore** has the clock, the cloud and the three values of `hue_remote_env`.  A
token is the number of the exchange that issued it.  The cloud may rotate refresh
tokens, repeat the old one in its answer, or leave it out, by a policy that is fixed
in a behaviour; the code has a branch for each.

**HueToken** is `ensureFreshAccessToken` of any number of Tcl processes, cut wherever
something shared is read or written: `Load` (envLoad and the checks), `Accepted`,
`Refused`, `NoContact` (the request at the cloud), `Receive` or `LoseAnswer`,
`Truncate` and `Flush` (open and close of the file), `OpenFails`, `Reread`,
`Authorize`, `Call`, and `End` for a script that ends or is killed anywhere.  The
line-wise merge of `_parseHueRemoteEnv` is `Parsed`: a missing line leaves the old
value.

**RemoteSh** is one run of remote.sh per process: the dispatch with `testToken`, the
request, and the three `echo`s that write the file line by line.  The reply is cut
at fixed fields without being looked at, so an error object and curl's own message
become values too (`Denied`, `Unreachable`).  A curl that fails leaves a message to cut
only under refreshtoken, which runs it with `-S` and `2>&1`; gettoken runs it with `-s`
alone and goes on with nothing: empty tokens and an expiry of now (`Silent`).
**TokenFleet** composes RemoteSh with HueToken over one store.

**HueConfig** is `::hue::config`: mode, key, the override that an explicit
`config set -key` makes, and `hue_config.tcl`, to which every set writes the mode.
**HueUsers** uses it as listUsers does.  Its actions follow the procedure: list the
remote names, and for each of them flip to its own key, read, flip back, flip to
the neighbour's key, read, take the local name from the row with the same join
key, flip back; then build rows, link client keys, restore, cache.  Creation,
deletion and deletion by device are actions step by step as well.  A Tcl error may
stop the procedure at every request.

**HueGroups** has the bridge, the cache file and each process's tables, with
`EnsureLoaded`, `LoadAll`, `Truncate`/`Flush` of the file, and the edits from the
look at the table (`Consult`, `Refuse`) over the PUT (`PutLights`, `PutName`) to the
update of the table (`RememberLights`, `RememberName`).

**CachedTable** is what the groups promise: the truth, and copies of it with holes.  A
copy learns from the bridge, from the file, or by writing an entry itself; an entry
that somebody else changes is not believed any more.  `GroupsAreCached` in HueGroups
maps the groups to it: what a process knows is its table without the groups that
were changed behind its back (the history variables `touched` and `diskTouched`), with
an edit that the bridge has taken and the process has yet to remember counted in.

**FohWatch** has the switches, the bridge, which keeps the last event of each with the
second it happened in, and the watch.  One `Poll` is one turn of the inner loop; the
answer and the clock are read in one step, as nothing else in the program runs in
between.  A turn whose answer cannot be parsed changes nothing (`Junk`), and nothing
says that there ever is another: in mode local the sensors are asked for without the
`/api/<key>` of the bridge's v1, every turn is `Junk`, and the watch prints nothing for
ever.  A watch that ends (`Stop`: curl fails, or the user) starts without memory.

**FohManage** has the model files of a switch, the bridge's rules, status sensors
("rockers") and resource links, and one run of foh_manage.sh at a time.  `Apply` is the
reading at the start; then one action per request, in the order of the script:
`FindRocker` or `CreateRocker` and `NoteRocker` (the id goes into the model file), `Part`
for each of the three rules, `CreateLink`.  `DeleteAll` reads the links and then `DropLink`,
`DropRule`, `DropRocker` delete one object each.  `Answered` lets an answer get lost after
the request took effect, `Die` is a kill or a `die` anywhere, `Fault` an error that the
script takes for success: a failed deletion, or an error object read as an empty
list, be it of rules, links or, in -delete, of sensors.  Rules are looked up by the
names the model file gives them, which are free: `naming` stands for the names of one
file, of the user's (`"own"`), of a read (`"default"`) or of the file that was copied, and
`Edit` and `Read` change it.  `broken` remembers which faults happened, and that a file got
other names while its button had rules, for the properties only.  The lookups by name are modelled by what they do: `.key | first` is refused by jq for the
string that a key is, so a lookup that finds something ends the script (`Stuck`).

**LightState** has one light with its name, the saved states (files by light and name,
or on a CCU one variable per light) and any number of runs of the four scripts.  A run
looks at the light once (`Look`) and then puts: `PutOn`, `PutSet`, `PutOff` are the PUTs of a
restore, of which it makes the ones that the look calls for.  The bridge ignores
settings of a light that is off (`SetAspects`).  A PUT may be refused, one with settings
in part: an error that `curltest` does not know is printed and the script goes on to the
next one and ends as if all was well (`refused` remembers it).  On a CCU, where the
light is off and is to stay off with other settings, the restore ends in a Tcl error
before its first PUT: the array it compares still holds what `infoVariable` says of the
variable.  Saving opens the file, which empties
it, and writes it; a run that has the file open while another removes it writes into
nothing (`unlinked`), and one that has looked at the light before a deletion and has
not opened the file yet writes the old state after it (`stale`, `late`).  `Elsewhere` switches, sets or renames the light.

**EffectStreamer** is test.py as Python runs it: the main thread step by step, a stack of
signal handlers that runs on top of it between any two steps and on top of each
other, and the monitor thread.  `_ctrl_c_lock` and the lock inside `stop_event` are not
reentrant, so a handler may wait for a lock that the code below it on the same stack
holds.  Every call of the library may raise where the code has an answer to it.  A
start of the stream that raises may have reached the bridge all the same, and is
outside the `try` that would stop it.  An answer to the monitor may be without data,
and then reads as lights that have all changed (`Nothing`).

The C program is in three modules, so that what it reads can be proved about although
what it prints is a recursion.  **Jsmn** has jsmn operator by operator (`Open`, `Close`,
`ParseString`, `ParsePrimitive`, `Separate`), and `Symbol` for one turn of the loop of
`jsmn_parse`.  **JsonReader** is main: `Read` takes a chunk of any size up to a bound, `Scan`
is a turn of the loop from where jsmn stopped, `Return` its end, `Grow` doubles the array of
tokens, `Dump` stands for the print-out, and `Eof` ends with status 0 or 2.  **JsonDump**
adds documents and `dump_tcl` as the recursion it is (`DumpAll`), with its two global names
passed along; it takes all other actions from JsonReader.  **OnePass** is what resuming
promises: the same tokens as if the text had been there at once and the array large
enough.  A symbol of the model is a character that the code tells apart, or stands for
a word.

## The runs

| run | question | bounds |
|---|---|---|
| `hue_token` | do processes without a lock keep the login, and pair token and expiry? | 3 processes, 3 tokens, 9 ticks, lifetime 4, skew 1, all policies |
| `token_fleet` | do the Tcl client and remote.sh hand the login on to each other? | one of each, 3 tokens, 6 ticks |
| `users` | are names and client keys right, deleted users gone, mode and key right at each request? | 3 accounts, two of them twins, one created late and with a client key; one process, restarted at will |
| `users_store` | does the client key file hold client keys? (not only) | as `users` |
| `groups` | do tables mirror the bridge and implement a cached table, and edits keep members? | 2 processes, a zone, a room created late, an entertainment area, 2 names, 2 lights, 2 changes at the bridge |
| `foh_watch` | is what the watch prints of a press true? | one sensor, 2 buttons, 6 ticks of some 400 ms, threshold and second of 2, gap of 1 |
| `foh_manage` | do kills, lost answers, failed deletions and changed names leave rules dangling, doubled or orphaned? | 2 buttons, 3 rules, 2 rockers, 1 edit, 1 fault, any number of kills |
| `foh_replace` | does an apply enforce the exact set? (no) | 1 button, 3 rules, no fault |
| `light_state` | is a restore exact, also half-way, and a deleted state gone? | 2 runs, 2 aspects of 2 values, 2 names, 1 change by others, files and CCU |
| `effects` | does a stop stop, cleanly, and only for a reason? | 2 lights, 2 frames, 3 signals, 2 switches of the lights, a looped effect and both others |
| `effects_ctrl_c` | does a second Ctrl-C end the program? (not always) | as above, 2 signals |
| `json_dump` | is what jsondump prints the document? | documents of depth 3 and up to two members a level, chunks of 1 to 9 symbols, 2 tokens at first, the pipe cut anywhere |

The largest are `foh_manage` with 3.7 million states, `users` with 3.5 and `token_fleet` with
2.6; then `effects` with 890 000, `light_state` with 698 000, `foh_watch` with 679 000,
`groups` with 520 000, and `json_dump` with 96 000.  Each takes less than five minutes.

`light_state` counts states as `StateView` shows them: of a run that is over and has saved
or deleted, or was disturbed, it leaves out what the run had found.  No property reads
that of such a run, no action but its next `Look`, which overwrites it, so that states
which differ in nothing else have the same future.

Why the bounds are enough. Three token processes are one more than any race in the
code has parties; three tokens let a refresh be followed by another while a third
process still holds the first. A tick stands for about the 90 s of the skew, so every
comparison with the clock comes out on both sides. Three accounts are the fewest for
which a neighbour (`rb`) is neither the account itself nor the only other, and of
which two can be twins while the third has a join key of its own. Two changes at the
bridge are the fewest that let a group be created, and then renamed by a process whose
tables do not know it, or a table go stale between two edits. Groups of three types,
one of them not editable, cover every rank the preference of names can tell apart but
one. Six ticks hold a primed event, a long press and the start of another in seconds
of their own; sensors influence each other only by whose turn it is, and what is
printed is proved for any number. Two buttons share a rule manager's ids and can take
each other's rocker and names by a copied model file, and three rules are those of one
with both presses, or of two short ones and one more; the properties are proved for
any number. Two runs at a light meet at every pair of points; two aspects are the
fewest of which one may differ and the other not. Two lights make a frame that can be
cut, and the third signal comes after the one that asks for the hard stop. Nine
symbols is longer than any token of the documents, so every token is cut at every
place and also not cut.

`hue_token`.  `OneUpdater`: although nobody takes a lock, under rotating refresh tokens
at most one process is between an accepted exchange and the re-read after it.
`LoginLostOnlyByFault`: the refresh token the cloud accepts is in the file or carried
to it by a process, until that process dies or loses the answer.  `ExpiryBelongsToToken`:
an expiry never overstates the token beside it, through truncated files, merges and
missing `expires_in`.  `AuthorisedIsHonoured`: what a call is sent with is honoured,
unless this process's own curl failed or the file is read-only.  The last exclusion
is a real weakness: with a read-only file the re-read undoes the refresh.

`token_fleet`.  The same over both clients, one after the other.  remote.sh overwrites a
good file with curl's message after a refresh that fails, and with fields of an error
object or empty lines after a login that does; the property names these as the only
further losses.  The empty lines come with an expiry of the time of writing, which a
Tcl process merges with the token it remembers and so refreshes at once: the pairing
is claimed for expiries that are still to come.  The two kinds of client are run in turns: side by side they
lose the login in many ways and nothing in the repository promises otherwise.

`users`.  `MappingRight`: the local name shown for a remote one belongs to that account,
or at worst to a twin created by the same device on the same date.  `ClientKeySurvives`
is about processes one after the other; two long-lived ones overwrite each other's
keys, as each reads the file once.  `DeletedStaysGone` covers caches and keys after
a deletion that went through, also of the first of several.  `RightKeyInUse`: the
whitelist of the bridge is asked for locally and under the key of the user in question
or its neighbour, the cloud under the caller's key, although each flip saves and
restores mode and key within what listUsers saves and restores, and every `config set`
reads the configuration files again.  What a listing leaves behind is not "exactly as it
was" (`hue.inc.users.tcl:530` and 622): mode and key are, but the restore sets the key
explicitly, and the override stays where there was none (`Return`).

`groups`.  `TablesMirrorBridge` uses two history variables, the groups changed behind
the back of a process's tables and of the file; they are read by properties only.
`EditKeepsMembers` says that an edit of membership loses no other light unless the
table was stale: for a stale table it does, since whole lists are put.
`PreferredIndexRight` survives any order of loads and renames as long as groups that
share a name have types.

`GroupsAreCached` is the refinement.  It would fail if an edit changed the table otherwise
than the bridge, if a table that could be wrong were saved as a right one, or if a
failure in the middle of a load left old entries for new.

`foh_watch`.  `LongIsHeld` and `MissedWasLost` use the history of what the bridge showed and
nobody read: a short press is reported as LONG, and a press as missed, only where an
event of the button was overwritten between two polls.  `ShortIsShort` holds whatever
was missed.

`foh_manage`.  `NoDangling`: links are created last and deleted first, so that no link ever
names what is not there, until the deletion of a link itself fails.  `OneOfEach`: an
apply that is repeated after its death makes nothing twice under one name, since
whatever it finds ends it; that takes a misread list.  A second rule for one part of a
button, so that a press does something twice, takes a misread list or no fault at all
but other names in its model file while it has rules: an apply dies after the short
rule, a read sees no link and writes default names over the user's, and the next apply
finds nothing and says "OK applied".  `NoOrphans`: what is in no link cannot be found by
-delete any more, and that takes a run that ended half-way, a deletion that failed, or
one that took the list of sensors for empty and left the rocker.  `ExactSet`: where an
apply says "OK applied", the rules under the names of the model file are exactly those
it asks for, and all of this button; the button has no others but after such a change
of names.

`light_state`.  `RestoreExact` and `NeverHalfOff` together say what three PUTs without a
transaction can promise: a light that is off is never in between, and one that is on
may be.  Where the bridge refused a PUT the script neither stops nor says so by its
status, and less holds: each setting is as found or as saved, but a light may be off
with its old settings, or with some of them.  `SwitchRight` and both of these speak of
runs that nobody disturbed: a toggle that meets another one does nothing useful.
`DeletedIsForgotten` has two exceptions: a light that has been renamed, as the name is part
of the file name, and a save that looked at the light before the deletion and writes
after it, which brings the old state back.

`effects`.  `OneSignalIsSafe` names the one window in which a single Ctrl-C can hang the
program: while the main thread itself is in `stop_event.set()`, at the end of an effect.
`HardStopCutsFrame` and `StopEndsWithFrame` bound what is still sent.  `StopHasCause` counts
an answer without data among the causes: "Script stops if any watched light changes
on/off" (`test.py:447`), and here none has.  `StreamClosed` excepts a start that raised
(`StartRaised`): the bridge may have taken it, and nothing stops the stream then.
`StopTakesEffect` and
`SwitchStops` are liveness properties; both exclude a main thread that waits for itself.

`json_dump`.  `NothingLost` is about jsmn resumed in the middle, and `ParsesTheWhole` says it
as a refinement of OnePass; `TokensNest` is what the dump relies on, `PrintsDocument` is
about the globals of the dump, `WholeOrNothing` about a pipe that ends early.  The
exceptions, a primitive cut in two and an empty array without a key, are real: see below.

Disagreements found between the code and its own comments or messages, each with a
run: the swapped arguments of `clientKeyRemember` (`users_store`); a second Ctrl-C that
waits for its own thread's lock (`effects_ctrl_c`); an apply that cannot replace rules
(`foh_replace`).

Other facts about the code that the models contain, and that no run is spent on:

* `testToken` sends the user to `remote.sh refreshtoken`, which starts with `testToken`.
* `listUsers` restores the key by `config set -key`, which leaves an override behind, so
  the configuration is not "exactly as it was": later changes of `config.hue.tcl` have no
  effect in that process.
* In mode local the watch of switches skips every round: `/sensors` without a key has no
  answer it can parse.
* With a read-only `hue_remote_env` every refresh is undone by the re-read.
* `LightStateDelete.tcl 0` writes `{*} [glob ...]` with a space: where two states are saved or
  more it deletes nothing.  Two toggles at once toggle once.
* `LightStateRead.tcl` on a CCU dies at line 99 where the light is off and was saved off with
  other settings; a PUT refused with an error `curltest` does not list is printed, and the
  script ends as if all was well.
* foh_manage.sh: a rocker is never found by its name and so always created anew when
  the model file names none; the PUT branches cannot be reached; deleting a button
  deletes no rule that exists; a one-shot file posts a null rule and dies; read writes
  an empty skeleton, or exits if there is a link; -delete stops before its first
  deletion if the last sensor it looks at does not exist.
* jsondump: a number or word cut by the end of a chunk of 300 000 bytes is printed in
  part, with status 0, if it completes a document; an empty array inside an array is
  printed under the name of another value; a newline in a chunk of its own prints
  the document a second time.

Fairness.  test.py: threads are scheduled and
calls of the library return (`WF` of `MainStep`, `HandlerStep`, `MonitorStep`), and of
infinitely many requests of the monitor one is answered (`SF` of `MonitorFetch`).
jsondump: the pipe delivers or ends (`WF` of `DumpNext`).  Ticks, signals, switches,
failures and users are not fair anywhere.  Deadlock is checked in all runs but those
of programs that end: `effects`, `effects_ctrl_c` and `json_dump`.

### Assumptions and abstractions

* `MaxDelay`: the answer of an exchange is read, written and read back within this
  time.  Without it an expiry computed from the clock at reception overstates the
  token by the delay, as it does in the code.  It is at most the skew of 90 s
  (`TimingAssumption`), which is about the network and not about the code: curl is run
  without a time limit, and "refresh a little before expiry" is worth something only
  for answers that take less.  The other half of the assumption is that a token lives
  at least the 3600 s the code assumes where the answer does not say.
* The policy `omit` is not used with remote.sh, which cuts `refresh_token` at a fixed field.
* `MaxGap`: the watch gets a readable answer of each sensor at least so often; without
  it no statement about lengths of presses is possible.
* Texts are model values.  `hue_config.tcl` and the cache of rows are replaced in one
  step; `hue_remote_env`, the client keys and the cache of groups are not.
* A time to live is a free choice between believing and reloading.
* Other programs change the bridge at any time (`Elsewhere`).
* `setLightsByIndex` calls `ensureLoaded` once more than the model: the table can change
  between the two only if its 30 days end in between.
* The properties of `users` are checked with one process at a time.  Two of them,
  about names and about the key in use, are proved for any number.
* One run of foh_manage.sh at a time.  Ids are not used again while they are in use.
* `NumLights`, frames, colours and times of an effect are abstracted to the tests between
  them; sleeping is a step.  Signals arrive between two steps, as Python delivers them.
* A light's settings are put by one PUT, of which the bridge may refuse any part; the CCU
  sets a variable in one call.
* The three names of a model file are one: they change together.
* jsondump: the input is one object or array, closed by the last symbol but the newline,
  in which a number or word is followed by a delimiter (`IsDocument`), as the bridge's
  answers are; no `\u` or unknown escapes and no names longer than 299 bytes.  The
  bound of 300 000 bytes on a chunk becomes `MaxBuf`.
* `config.hue.tcl` is read at the start of a process; which it is, is chosen at `Init`.
* `class` of a group, which is treated like its type, and the matching of names by
  prefix are left out.

## The proofs

All hold for every value of the constants, from the assumptions the modules name,
which TLC evaluates in the runs, and from the hypotheses a theorem states.  Each module
has its type invariant proved; that of JsonReader is also checked in a run.

`HueTokenProofs` is about the Tcl client first.  `TypeCorrect` is inductive as it stands.
That no step of another process removes the live refresh token (`LoginSurvives`) needs to
know where it can be.  `IInv` adds that nobody holds a token that is not issued yet
(`NothingFromTheFuture`), that under rotation the accepted token is the newest one, and a
process between its exchange and the flush carries it, is alone there, and shares it
neither with the file nor with another process (`RotatingLogin`), and that without
rotation such a process carries the accepted token too (`StandingLogin`).  That without
rotation nobody is ever refused is a theorem of its own (`StandingNeverRefused`).  The
step lemma has one case per action; the actions that leave tokens alone share
`QuietStep`.

`TimedInv` adds the clock: an expiry against the time its token was issued, for the
answers under way, the file and every memory, with the empty file and the file whose
lifetime is missing as cases of their own (`Clocked`); and that under rotation one
process is in its update (`OneAtATime`).  It gives `ExpiryRight`, `UpdatersExclude` and
`CallsAreHonoured`, the last because a token that is believed for longer than the skew
outlasts it.

The same module then proves the two clients together (`TokenFleet`).  `FleetInv` reuses
`IInv` for the Tcl client, whose steps are those of HueToken, and says of a run of
remote.sh what its environment holds at each point (`ShellFits`); `FleetClock` does the
same for the times.  It is weaker than `TimedInv`: remote.sh may die with the third line
unwritten, and a Tcl client then merges the file with an expiry of its own, which must
not be too late for the token it now stands by (`HalfClock`).  `FleetLoginSurvives` and
`FleetExpiryRight` hold for any number of Tcl clients and assume `OneShell`, no two runs
of remote.sh at a time, and `AlwaysNamed`, a refresh token in every answer; two shells
side by side interleave the three lines they write, and without a refresh token in the
answer the fixed fields are others.  The run makes the same assumptions.

`HueUsersProofs` proves types, with the calls that can be open at each point
(`UsersInvariant`, `UsersTypeCorrect`), and, for any number of processes at once,
`MappingHolds` and `KeyInUseIsRight`.  The key in use needs what mode and key are at each
point of a flip and what it has saved of them (`KeyFits`).  The names need that in turn,
that what a flip has found so far is right already (`NamesRight`), and that the row found under a neighbour's key is that of
the account or its twin.  The two about client keys and deletions assume `OneProcess`:
processes run one after the other, as the properties say, for two at once overwrite
each other's keys.  `Books` says that a process which has read the keys knows the file
(`InStep`), that under a remote name nothing but its own client key is filed, whatever
the swapped arguments file elsewhere (`KeysFiled`), how far a deletion is (`UnderWay`), and
that of a user who is gone no row, list or key is left (`GoneForGood`).

`FohWatchProofs` proves `WatchTypeCorrect`, `ShortHolds`, `LongHolds` and `MissedHolds` for any
number of sensors and buttons, any threshold, resolution and gap, from `WInvHolds`.  A
printed line speaks of a press that is over, so none of the three is inductive.
`WInv` says of every button when its press is remembered: at most a gap after the
press itself (`NotTooLate`), and not before it unless an event of the button was
overwritten (`NotTooEarly`).  That a new press is remembered at all needs that it is
never taken for a repeat: an event that was read is the one the watch compares with
(`ReadIsSeen`), the bridge shows a press only while the button is down
(`ShownIsHeld`), and a press seen last of a button that is up has an unread release
behind it (`LastSeenPress`).

`HueGroupsProofs` proves that the abstract table knows the truth or nothing
(`TablesKnowTruth`), then types of the groups, with the jobs of each point of the code
(`GroupsInvHolds`, `GroupsTypeCorrect`), and `Refinement`: `GroupsSpec => GroupsAreCached`.  Every
action is mapped to a step of CachedTable or to none: a load to `Fetch`, the file to
`Adopt`, `Store` and `Discard`, an edit that arrives to `Change`, a lost answer to `Doubt`, what a
process remembers to a stutter.  The refinement brings `KnowsTruth` down to the groups
(`GroupsKnowTruth`), which is `TablesMirrorBridge` said otherwise (`MirrorHolds`).
`IndexHolds` needs that the index is the one of the table as it is, in memory and file
alike, wherever its groups can be compared (`IndicesOK`); `MembersHold` follows from the
mirror for a process that works, which it does with a table it has loaded.

`EffectStreamerProofs` proves the five safety properties of the run for any number of
lights, frames, signals and switches, from `SInvHolds`.  `SInv` says how far a frame is
(`InFrame`), what was sent since a request (`SentLate`), that every handler on the stack has
its signal and who may hold the lock of `stop_event` (`LockHolders`), when the stream is on
and what a start that raised may leave (`StreamPhase`), and how the monitor came to ask
for a stop (`Causes`).

`LightStateProofs` proves all four properties of the run for any number of runs, aspects,
values and names.  `LInv` says of each run that nobody disturbed where between the
state it found and the state it is to reach the light is at that point (`Restoring`,
`Switching`), for PUTs that the bridge took and for those it refused, and that without a
renaming there is but one slot in use (`OneSlot`).

`FohManageProofs` proves all four properties of the run for any number of buttons, ids,
edits, kills and faults.  `NoDangling` needs that the rocker and the rules a run has noted
exist and are the button's (`JobInv`), and that nothing is deleted while a link names it
(`DropInv`).  `OneOfEach` needs that what an apply has read under its names is still so for
the parts it has not got to (`ReadInv`), that no name has two rules (`Unique`) and that
without a renaming a button's rules have its file's names (`NameInv`); `ExactSet` that what it has dealt with is as wanted (`DoneInv`).
`NoOrphans` needs that every object is in a link or in the hands of the run
(`OrphanInv`).  The effect of each request on the run's notes is a lemma of its own
(`RuleEffect`, `LinkEffect`, ...), and each part of `MInv` has its step lemma.

`JsonReaderProofs` proves the four properties of the reader (`ReaderTypeCorrect`,
`NestingHolds`, `PassImplemented`, `WholeOrNothingHolds`) for texts, chunks and arrays of
any size.  A step of jsmn looks for the innermost open token or the next delimiter, so
the proofs need least and greatest elements of sets of positions; that they exist is
shown from the well-founded inclusion of finite ranges (`LeastNumber`), because an
induction theorem with an operator as its parameter cannot be used here.  `SymbolShape`
says what one symbol does to the tokens and `SymbolNests` that they go on nesting, given
that all of them lie before the position (`ReaderInv`).  For the refinement, `SameSymbol`
shows that a step which did not run out of text takes with the whole text what it took
with the part, and one that did leaves tokens and position as they are, unless it cut a
primitive.  `WholeInv` ties the parser to the text: at each position as many tokens are
open as brackets (`Matches`), so that all are closed only where the document ends.
The theorems are about `ReaderSpec`; JsonDump adds variables to its actions and changes
none of its own.

Only model-checked are `NothingLost` and `PrintsDocument`: they compare with what
recursions over a document compute, which for every document takes an induction over
data that the provers at hand cannot do.  Liveness (`StopTakesEffect`, `SwitchStops`,
`DumpEnds`) is out of their reach as well.  Every other property of a passing
run is proved.

## What is open

That two Tcl clients and one remote.sh, running side by side, keep at least the pairing
of tokens and expiries, or a counterexample to it.

## Not modelled

By lines, most of the repository is `source/tcl-header`: Tcl's own C sources, some
119 000 of 121 000 lines, which the C helpers are compiled against.  They are third-party
code and no part of what this project is about; nothing in them is modelled, and so
the share of the repository's lines that the modules stand for is small although the
share of its own logic is not.

Of the project's own code, left out are the lights and the sensors (the discipline of
tables and files that the groups have, with less to edit), most of `hue.inc.tcl` (one
request per procedure, and formatting), menus and CCU glue (`preferences.tcl`, `ccu_*.tcl`),
scripts that send one request (`setLightState.tcl`, `createGroup.tcl` and so on), what the
rules made by `foh_to_hue_rules.jq` do at the bridge, colour conversion in floating point
(`source/color.c`), discovery over UDP, and the mDNS library.
