-------------------------- MODULE SubscribeSupport --------------------------
(***************************************************************************)
(* The calls of one SubscribeSession for one path (subscribe.go):          *)
(* IsSubscribeSupported translates the path through its app, splits a      *)
(* TARGET_DEFINED request into an ON_CHANGE part and SAMPLE parts, and     *)
(* keeps the translations in the session; Subscribe and Stream then take   *)
(* them from there by path.                                                *)
(*                                                                         *)
(* A path is a sequence of elements <<name, key>>, key being a value, the  *)
(* wildcard "*" or NoKey.  An app info (notificationAppInfo) is a record   *)
(* with the fields id, path, onChange, pType, nonDB and interval.          *)
(***************************************************************************)
EXTENDS Naturals, Sequences, FiniteSets, SequencesExt

CONSTANTS
  NoKey,
  RequestPath,  \* the path of the client
  TargetInfos,  \* sequences of app infos the app may return for the path
  ChildInfos    \* and for its children

Wildcard == "*"
MinSubscribeInterval == 20

-----------------------------------------------------------------------------
(***************************************************************************)
(* Paths (path/path.go).                                                   *)
(***************************************************************************)
HasWildcardKey(p) == \E n \in 1..Len(p) : p[n][2] = Wildcard

\* A path matches a template that is not longer and whose keys are the same
\* or wildcards.
Matches(p, template) ==
  /\ p # <<>> /\ Len(template) <= Len(p)
  /\ \A n \in 1..Len(template) :
       /\ p[n][1] = template[n][1]
       /\ (p[n][2] = NoKey) = (template[n][2] = NoKey)
       /\ template[n][2] \in {Wildcard, p[n][2]}

-----------------------------------------------------------------------------
(***************************************************************************)
(* The answer of an app (subscribe_app_interface.go): each info is of one  *)
(* table or other source, for a node at or below the path of the client.   *)
(***************************************************************************)
NotificationType == {"TargetDefined", "OnChange", "Sample"}
IsAppInfo(info) ==
  /\ info \in [id : {info.id}, path : {info.path}, onChange : BOOLEAN,
               pType : NotificationType, nonDB : BOOLEAN, interval : Nat]
  /\ info.path \in Seq(Range(info.path)) /\ Matches(info.path, RequestPath)
IsAnswer(infos) ==
  /\ infos \in Seq(Range(infos))
  /\ \A info \in Range(infos) : IsAppInfo(info)
  /\ \A m, n \in DOMAIN infos : m # n => infos[m].id # infos[n].id

ASSUME InfosAssumption ==
  \A targets \in TargetInfos, children \in ChildInfos :
    /\ IsAnswer(targets) /\ IsAnswer(children)
    /\ \A t \in Range(targets), c \in Range(children) : t.id # c.id

-----------------------------------------------------------------------------
(***************************************************************************)
(* Validation: a non-DB path has neither on-change nor wildcards.          *)
(***************************************************************************)
Valid(info) == ~(info.nonDB /\ HasWildcardKey(info.path))
ForceSample(info) ==
  IF info.nonDB /\ info.onChange
  THEN [info EXCEPT !.onChange = FALSE, !.pType = "Sample"] ELSE info

\* translateSubscribe: FALSE when the request is refused.
Translates(targets, children) ==
  /\ targets # <<>>
  /\ \A info \in Range(targets) \cup Range(children) : Valid(info)
Translated(infos) == [n \in 1..Len(infos) |-> ForceSample(infos[n])]

-----------------------------------------------------------------------------
(***************************************************************************)
(* segregateSampleSubpaths.  A part is a translatedPathInfo: its path, its *)
(* target and its child infos.                                             *)
(***************************************************************************)
Part(p, targets, children) ==
  [path |-> p, targets |-> targets, children |-> children]
InfosOf(part) == Range(part.targets) \cup Range(part.children)

PrefersSample(info) == ~info.onChange \/ info.pType = "Sample"
Segregate(lists, info) ==
  IF PrefersSample(info) THEN [lists EXCEPT !.sample = Append(@, info)]
                         ELSE [lists EXCEPT !.onChange = Append(@, info)]
Segregated(infos) ==
  FoldLeft(Segregate, [onChange |-> <<>>, sample |-> <<>>], infos)
OnChangeOf(infos) == Segregated(infos).onChange
SamplesOf(infos) == Segregated(infos).sample

\* findTranslatedParentInfo: the first part with a target above the path.
ParentsOf(parts, p) ==
  {n \in 1..Len(parts) :
     \E t \in Range(parts[n].targets) : Matches(p, t.path)}
First(S) == CHOOSE n \in S : \A o \in S : n <= o

AddTarget(parts, info) ==
  IF ParentsOf(parts, info.path) # {}
  THEN [parts EXCEPT ![First(ParentsOf(parts, info.path))].targets = Append(@, info)]
  ELSE Append(parts, Part(info.path, <<info>>, <<>>))
\* Mutant: a child that belongs to a part is sampled on its own as well.
AddChildTwice(parts, info) == Append(parts, Part(info.path, <<info>>, <<>>))
AddChild(parts, info) ==
  IF ParentsOf(parts, info.path) # {}
  THEN [parts EXCEPT ![First(ParentsOf(parts, info.path))].children = Append(@, info)]
  ELSE Append(parts, Part(info.path, <<info>>, <<>>))

\* A path none of whose targets is on-change is left as it is.
Splits(part) == OnChangeOf(part.targets) # <<>>
SampleParts(part) ==
  IF Splits(part)
  THEN FoldLeft(AddChild, FoldLeft(AddTarget, <<>>, SamplesOf(part.targets)),
                SamplesOf(part.children))
  ELSE <<>>
OnChangePart(part) ==
  IF Splits(part)
  THEN Part(part.path, OnChangeOf(part.targets), OnChangeOf(part.children))
  ELSE part

-----------------------------------------------------------------------------
(***************************************************************************)
(* collectNotificationPreferences over all infos of a part.                *)
(***************************************************************************)
Response(part) ==
  LET infos == InfosOf(part) IN
  [interval  |-> CHOOSE n \in {MinSubscribeInterval} \cup {i.interval : i \in infos} :
                   \A i \in infos : n >= i.interval /\ n >= MinSubscribeInterval,
   onChange  |-> \A i \in infos : i.onChange /\ ~i.nonDB,
   part      |-> part,
   preferred |-> IF \E i \in infos : i.nonDB \/ i.pType = "Sample"
                 THEN "Sample" ELSE "OnChange",
   wildcard  |-> \A i \in infos : ~i.nonDB]

-----------------------------------------------------------------------------
VARIABLES
  request,    \* <<mode, targets, children>>: the query and the app's answer
  responses,  \* IsSubscribeResponses not yet followed by the client
  session,    \* pathData of the SubscribeSession: set of <<path, part>>
  onChanged,  \* infos that Subscribe registers
  sampled,    \* parts that Stream sends
  calls       \* calls made so far, by name

supportVars == <<request, responses, session, onChanged, sampled, calls>>

Init ==
  /\ request \in NotificationType \X TargetInfos \X ChildInfos
  /\ responses = <<>> /\ session = {}
  /\ onChanged = {} /\ sampled = <<>> /\ calls = {}

\* put: later data of a path replaces the earlier.
Put(data, part) == {d \in data : d[1] # part.path} \cup {<<part.path, part>>}
Found(p) == {d[2] : d \in {e \in session : e[1] = p}}

IsSubscribeSupported ==
  /\ calls = {}
  /\ calls' = {"IsSubscribeSupported"}
  /\ Translates(request[2], request[3])
  /\ LET whole == Part(RequestPath, Translated(request[2]), Translated(request[3]))
         samples == IF request[1] = "TargetDefined" THEN SampleParts(whole) ELSE <<>>
         rest == IF request[1] = "TargetDefined" THEN OnChangePart(whole) ELSE whole
     IN  /\ responses' = [n \in 1..Len(samples) |-> Response(samples[n])]
                         \o <<Response(rest)>>
         /\ session' = FoldLeft(Put, {}, Append(samples, rest))
  /\ UNCHANGED <<request, onChanged, sampled>>

Refused ==
  /\ calls = {} /\ ~Translates(request[2], request[3])
  /\ calls' = {"Refused"}
  /\ UNCHANGED <<request, responses, session, onChanged, sampled>>

\* The client subscribes on-change where that is supported and preferred or
\* asked for, gives up on-change paths without that support, and samples the
\* rest.
WantsOnChange(r) ==
  /\ r.onChange
  /\ \/ request[1] = "OnChange"
     \/ request[1] = "TargetDefined" /\ r.preferred = "OnChange"

\* Subscribe registers the targets and the children of the data it finds.
Subscribe ==
  /\ responses # <<>> /\ WantsOnChange(Head(responses))
  /\ onChanged' = onChanged \cup UNION {InfosOf(p) : p \in Found(Head(responses).part.path)}
  /\ responses' = Tail(responses)
  /\ calls' = calls \cup {"Subscribe"}
  /\ UNCHANGED <<request, session, sampled>>

\* Stream sends the targets, with all that is below them.
Stream ==
  /\ responses # <<>> /\ ~WantsOnChange(Head(responses))
  /\ request[1] # "OnChange"
  /\ sampled' = sampled \o SetToSeq(Found(Head(responses).part.path))
  /\ responses' = Tail(responses)
  /\ calls' = calls \cup {"Stream"}
  /\ UNCHANGED <<request, session, onChanged>>

\* An on-change request for a path without that support.
GiveUp ==
  /\ responses # <<>> /\ ~WantsOnChange(Head(responses))
  /\ request[1] = "OnChange"
  /\ calls' = calls \cup {"GiveUp"} /\ responses' = <<>>
  /\ UNCHANGED <<request, session, onChanged, sampled>>

SupportDone == calls # {} /\ responses = <<>> /\ UNCHANGED supportVars

Next == IsSubscribeSupported \/ Refused \/ Subscribe \/ Stream \/ GiveUp
        \/ SupportDone
Spec == Init /\ [][Next]_supportVars

-----------------------------------------------------------------------------
AllInfos == Range(Translated(request[2])) \cup Range(Translated(request[3]))
Answered ==
  "IsSubscribeSupported" \in calls /\ "GiveUp" \notin calls /\ responses = <<>>
SampledInfos == UNION {InfosOf(sampled[n]) : n \in 1..Len(sampled)}

\* A sample part with the very path of the request.
Ambiguous ==
  \E info \in AllInfos :
    info.path = RequestPath /\ PrefersSample(info)

\* What a response promises holds of every info that Subscribe then registers:
\* nothing that has no on-change support, or that comes from no database.
OnChangeIsSupported == \A info \in onChanged : info.onChange /\ ~info.nonDB

\* Every info is sampled from a part at or above its path, once.
SampledOnce ==
  /\ \A n \in 1..Len(sampled) : \A info \in InfosOf(sampled[n]) :
       Matches(info.path, sampled[n].path)
  /\ \A m, n \in 1..Len(sampled) :
       m # n => InfosOf(sampled[m]) \cap InfosOf(sampled[n]) = {}

\* A client that follows the responses gets every piece of a path, each by
\* one of Subscribe and Stream only (unless a sample part has the path of the
\* whole request), and by Subscribe only if that supports it.
EachInfoOnce ==
  /\ OnChangeIsSupported
  /\ SampledOnce
  /\ Answered /\ ~Ambiguous => /\ onChanged \cup SampledInfos = AllInfos
                               /\ onChanged \cap SampledInfos = {}
=============================================================================
