---------------------------- MODULE WindowsAccounts ----------------------------
(***************************************************************************)
(* Accounts and rights as Windows has them (windows/WindowsCommon.cpp), and  *)
(* the probes for them but those for the rights to files and registry keys.  *)
(* As before, what CollectItems makes of an object o on a system sys.  Names *)
(* of accounts and their SIDs are not told apart.                            *)
(***************************************************************************)
EXTENDS IndependentProbes

\* An exception that is only logged.
Logged(answer) == IF answer.throws THEN Nothing ELSE answer

\* What is made of all that was found, or of nothing at all.
OrNone(answer, Of(_), none) ==
  Together({IF a.throws THEN Throws ELSE IF a.found = {} THEN none ELSE Of(a.found) : a \in {answer}})

\* What is found, each turned into what it stands for.
ForEach(answer, Of(_)) ==
  Together({IF a.throws THEN Throws ELSE Together({Of(t) : t \in a.found}) : a \in {answer}})

-----------------------------------------------------------------------------
(* Accounts.  sys.accounts gives the state of each account and sys.groups the *)
(* members of every group.  An account that is unreadable cannot be looked    *)
(* up, and one that is gone has left its SID.                                 *)

AccountState(sys, t) == IF t \in DOMAIN sys.accounts THEN sys.accounts[t] ELSE "absent"

\* Anything but that there is no such account is an exception.
LookUpAccount(sys, t) ==
  CASE AccountState(sys, t) = "there" -> Found({t})
    [] AccountState(sys, t) = "unreadable" -> Throws
    [] OTHER -> Nothing

GetSIDForTrusteeName(sys, name) == LookUpAccount(sys, name)

LookUpTrusteeName(sys, name) == LookUpAccount(sys, name)

TrusteeNameExists(sys, name) == LookUpAccount(sys, name)

\* The name of the account in the form Windows gives it.
NormalizeTrusteeName(sys, name) ==
  Together({LookUpAccount(sys, t) : t \in {t \in DOMAIN sys.accounts : EqualsIgnoreCase(t, name)}})

IsSID(sys, t) == ~Marked(sys, <<t>>, "no SID")

\* A SID is one with an account or without.
GetSIDForTrusteeSID(sys, sid) == IF IsSID(sys, sid) THEN Found({sid}) ELSE Throws

LookUpTrusteeSid(sys, sid) == IF IsSID(sys, sid) THEN LookUpAccount(sys, sid) ELSE Throws

TrusteeSIDExists(sys, sid) == IF IsSID(sys, sid) THEN LookUpAccount(sys, sid) ELSE Throws

\* The name that goes with a SID, and an empty one where there is none.
GetFormattedTrusteeName(sys, sid) == IF AccountState(sys, sid) = "there" THEN sid ELSE << >>

IsAccountGroup(sys, t) == t \in DOMAIN sys.groups

\* Of a name or a SID without an account nobody can say whether it is a group.
IsGroup(sys, t) ==
  IF AccountState(sys, t) # "there" THEN Throws
  ELSE Found(IF IsAccountGroup(sys, t) THEN {t} ELSE {})

IsGroupSID(sys, sid) == IF IsSID(sys, sid) THEN IsGroup(sys, sid) ELSE Throws

\* The members of a group.  A group within itself, which the recursion would not
\* survive, is left out.
RECURSIVE ExpandGroup(_, _, _, _)

MemberOf(sys, t, includeSubGroups, resolveSubGroup) ==
  LET isGroup == IsGroup(sys, t)
      subGroup == isGroup.found # {}
  IN  IF isGroup.throws THEN Throws
      ELSE Together(
        (IF subGroup /\ resolveSubGroup
           THEN {ExpandGroup(sys, t, includeSubGroups, resolveSubGroup)} ELSE {})
        \cup (IF ~subGroup \/ includeSubGroups THEN {Found({t})} ELSE {}))

\* A local group passes over a member that fails, a global one only over a member
\* without a SID.
GetLocalGroupMembers(sys, group, includeSubGroups, resolveSubGroup) ==
  IF Marked(sys, <<group>>, "denied") THEN Throws
  ELSE Together({Logged(MemberOf(sys, GetFormattedTrusteeName(sys, t), includeSubGroups, resolveSubGroup)) :
                   t \in sys.groups[group]})

GetGlobalGroupMembers(sys, group, includeSubGroups, resolveSubGroup) ==
  IF Marked(sys, <<group>>, "denied") THEN Throws
  ELSE Together({ForEach(GetSIDForTrusteeName(sys, t),
                         LAMBDA u : MemberOf(sys, u, includeSubGroups, resolveSubGroup)) :
                   t \in sys.groups[group]})

\* A local and a global group differ by their SID.
IsGlobal(sys, group) == Marked(sys, <<group>>, "global")

ExpandGroup(sys, group, includeSubGroups, resolveSubGroup) ==
  LET sid == GetSIDForTrusteeName(sys, group)
  IN  IF sid.throws THEN Throws
      ELSE IF sid.found = {} \/ ~IsAccountGroup(sys, group) THEN Nothing
      ELSE IF IsGlobal(sys, group)
        THEN GetGlobalGroupMembers(sys, group, includeSubGroups, resolveSubGroup)
      ELSE GetLocalGroupMembers(sys, group, includeSubGroups, resolveSubGroup)

\* A SID that is none or has no account expands to nothing, without an exception.
ExpandGroupBySID(sys, sid, includeSubGroups, resolveSubGroup) ==
  IF ~IsSID(sys, sid) THEN Nothing
  ELSE ExpandGroup(sys, GetFormattedTrusteeName(sys, sid), includeSubGroups, resolveSubGroup)

GroupExists(sys, group) == AccountState(sys, group) = "there" /\ IsAccountGroup(sys, group)

-----------------------------------------------------------------------------
(* The lists of accounts.  Some are made once: sys.cached is << >> or that list. *)

\* An enumeration fails, or the look-up of what it shows does.
Enumerated(sys, names) ==
  IF Fails(sys, "list") THEN Throws
  ELSE Together({GetSIDForTrusteeName(sys, t) : t \in names})

GetAllLocalUsers(sys) ==
  Enumerated(sys, {t \in DOMAIN sys.accounts : ~IsAccountGroup(sys, t)})

GetAllLocalGroups(sys) ==
  Enumerated(sys, {t \in DOMAIN sys.accounts : IsAccountGroup(sys, t) /\ ~IsGlobal(sys, t)})

\* Without the handle to the policy there are none.
GetAllGlobalGroups(sys) ==
  IF Fails(sys, "policy") THEN Nothing
  ELSE Enumerated(sys, {t \in DOMAIN sys.accounts : IsAccountGroup(sys, t) /\ IsGlobal(sys, t)})

ConvertTrusteeNamesToSidStrings(sys, names) ==
  Together({GetSIDForTrusteeName(sys, t) : t \in names})

Cached(sys, list) == IF sys.cached = << >> THEN list ELSE Found(sys.cached[1])

\* With the members of the local groups, which may be those of a domain.
GetAllTrusteeNames(sys) ==
  LET users == GetAllLocalUsers(sys)
      groups == GetAllLocalGroups(sys)
      members == {Logged(GetLocalGroupMembers(sys, g, TRUE, FALSE)) : g \in groups.found}
  IN  Cached(sys, Together({users, groups, GetAllGlobalGroups(sys)} \cup members))

GetAllTrusteeSIDs(sys) ==
  LET names == GetAllTrusteeNames([sys EXCEPT !.cached = << >>])
  IN  Cached(sys, ForEach(names, LAMBDA t : GetSIDForTrusteeName(sys, t)))

GetAllLocalGroupSids(sys) ==
  LET groups == GetAllLocalGroups(sys)
  IN  Cached(sys, IF groups.throws THEN Throws ELSE ConvertTrusteeNamesToSidStrings(sys, groups.found))

GetAllLocalUserSids(sys) ==
  LET users == GetAllLocalUsers(sys)
  IN  Cached(sys, IF users.throws THEN Throws ELSE ConvertTrusteeNamesToSidStrings(sys, users.found))

\* GetAllTrusteeNames puts the list in its place before it fills it: an exception
\* leaves what was there by then, and the list is not made again.
LeftInTrusteeNames(sys) ==
  LET users == {t \in DOMAIN sys.accounts : AccountState(sys, t) = "there" /\ ~IsAccountGroup(sys, t)}
      local == [sys EXCEPT !.broken = @ \cup {"policy"}]
  IN  CASE Fails(sys, "list") -> { {} }
        [] GetAllLocalUsers(sys).throws -> SUBSET users
        [] GetAllLocalGroups(sys).throws -> {users}
        [] OTHER -> {GetAllTrusteeNames(local).found}

-----------------------------------------------------------------------------
\* GroupProbe: equals takes all its values.
GetGroupMembers(sys, group) ==
  IF ExpandGroup(sys, group, TRUE, FALSE).throws THEN Throws
  ELSE IF GroupExists(sys, group) THEN Collected(<<group>>)
  ELSE Missing(<<group>>)

GroupCollectItems(sys, o) ==
  LET group == Entity1(o)
  IN  IF group.op = "equals" THEN Together({GetGroupMembers(sys, t) : t \in Values(group)})
      ELSE ForEach(GetAllLocalGroups(sys),
                   LAMBDA t : IF Matches(group, t) THEN GetGroupMembers(sys, t) ELSE Nothing)

\* GroupSidProbe: what does not expand is asked whether it is a group, which for a
\* SID without an account is an exception.
GetGroupSidInfo(sys, sid) ==
  LET members == ExpandGroupBySID(sys, sid, TRUE, FALSE)
  IN  CASE members.throws -> Throws
        [] GroupExists(sys, sid) /\ IsSID(sys, sid) -> Collected(<<sid>>)
        [] OTHER -> IF IsGroupSID(sys, sid).throws THEN Throws ELSE Missing(<<sid>>)

GroupSidCollectItems(sys, o) ==
  LET group == Entity1(o)
  IN  IF group.op = "equals" THEN Together({GetGroupSidInfo(sys, t) : t \in Values(group)})
      ELSE ForEach(GetAllLocalGroupSids(sys),
                   LAMBDA t : IF Matches(group, t) THEN GetGroupSidInfo(sys, t) ELSE Nothing)

\* Both tell whether there is such a user, which a group is not.  The groups of the
\* user are a part of the item and left out.
GetAccountInfo(sys, name) == IF IsAccountGroup(sys, name) THEN Nothing ELSE LookUpAccount(sys, name)

GetGroupsForUser(sys, name) == IF IsAccountGroup(sys, name) THEN Nothing ELSE LookUpAccount(sys, name)

\* An exception only concerns parts of the item.
GetUserInfo(sys, name) ==
  IF \E answer \in {GetAccountInfo(sys, name), GetGroupsForUser(sys, name)} :
       ~answer.throws /\ answer.found = {}
    THEN Nothing ELSE Collected(<<name>>)

\* The look-up of a SID comes first, and its exception is that of the object.
GetUserSidInfo(sys, sid) == ForEach(LookUpTrusteeSid(sys, sid), LAMBDA t : GetUserInfo(sys, t))

GetUserSid55Info(sys, sid) == ForEach(LookUpTrusteeSid(sys, sid), LAMBDA t : GetUserInfo(sys, t))

\* UserProbe, UserSidProbe and UserSid55Probe: equals takes the values that meet
\* the check, and says which are missing.
OfUsers(user, list, Info(_)) ==
  LET given == {v \in Values(user) : ~user.ref \/ Analyze(user, v) = "true"}
      orMissing(t) == IF ~Info(t).throws /\ Info(t).found = {} THEN Missing(<<t>>) ELSE Info(t)
  IN  IF user.op = "equals" THEN Together({orMissing(v) : v \in given})
      ELSE ForEach(list, LAMBDA t : IF Matches(user, t) THEN Info(t) ELSE Nothing)

UserCollectItems(sys, o) ==
  OfUsers(Entity1(o), GetAllLocalUsers(sys), LAMBDA t : GetUserInfo(sys, t))

UserSidCollectItems(sys, o) ==
  OfUsers(Entity1(o), GetAllLocalUserSids(sys), LAMBDA t : GetUserSidInfo(sys, t))

UserSid55CollectItems(sys, o) ==
  OfUsers(Entity1(o), GetAllLocalUserSids(sys), LAMBDA t : GetUserSid55Info(sys, t))

Includes(o) == o.behavior # "members"
Resolves(o) == o.behavior \in {"resolved", "members"}

\* What stands for an account: itself, or what a group resolves to.
Resolved(sys, t, o, members) ==
  IF ~(IsAccountGroup(sys, t) /\ Resolves(o)) THEN Found({t})
  ELSE Together({members, Found(IF Includes(o) THEN {t} ELSE {})})

\* SidSidProbe and SidProbe ask again for each member and pass over those that fail;
\* AccessTokenProbe does not, and reads the rights through a handle to the policy.
SidSidGetAccountInformation(sys, sid, o) ==
  LET account == LookUpTrusteeSid(sys, sid)
      members == ExpandGroupBySID(sys, sid, Includes(o), TRUE)
      item(t) == Logged(ForEach(LookUpTrusteeSid(sys, t), LAMBDA u : Collected(<<u>>)))
  IN  IF account.throws THEN Throws
      ELSE IF account.found = {} THEN Missing(<<sid>>)
      ELSE ForEach(Resolved(sys, sid, o, members), item)

SidGetAccountInformation(sys, name, o) ==
  LET account == NormalizeTrusteeName(sys, name)
      members == ExpandGroup(sys, name, Includes(o), TRUE)
      item(t) == Logged(ForEach(NormalizeTrusteeName(sys, t), LAMBDA u : Collected(<<t>>)))
  IN  IF account.throws THEN Throws
      ELSE IF account.found = {} THEN Nothing
      ELSE ForEach(Resolved(sys, name, o, members), item)

AccessTokenGetAccountInformation(sys, name, o) ==
  LET account == LookUpTrusteeName(sys, name)
      members == ExpandGroup(sys, name, Includes(o), TRUE)
      names == Resolved(sys, name, o, members)
  IN  IF account.throws THEN Throws
      ELSE IF account.found = {} THEN Missing(<<name>>)
      ELSE IF names.throws \/ Fails(sys, "policy") THEN Throws
      ELSE Together({ForEach(GetSIDForTrusteeName(sys, t), LAMBDA u : Collected(<<u>>)) : t \in names.found})

OfTrustee(trustee, list, Information(_)) ==
  IF ~Accepts(trustee, ExactOperation) THEN Throws
  ELSE IF trustee.op = "equals" /\ ~trustee.ref THEN Information(trustee.values[1])
  ELSE ForEach(list, LAMBDA t : IF Matches(trustee, t) THEN Information(t) ELSE Nothing)

SidSidCollectItems(sys, o) ==
  OfTrustee(Entity1(o), GetAllTrusteeSIDs(sys), LAMBDA t : SidSidGetAccountInformation(sys, t, o))

AccessTokenCollectItems(sys, o) ==
  OfTrustee(Entity1(o), GetAllTrusteeNames(sys), LAMBDA t : AccessTokenGetAccountInformation(sys, t, o))

\* The name given is brought into the form of the name of the account before it is
\* compared.
SidCollectItems(sys, o) ==
  LET trustee == Entity1(o)
      normal(v) == NormalizeTrusteeName(sys, v)
      absent == {v \in Values(trustee) : ~normal(v).throws /\ normal(v).found = {}}
      information(t) == IF Matches(trustee, t) THEN SidGetAccountInformation(sys, t, o) ELSE Nothing
  IN  IF trustee.op \in {"equals", "case insensitive equals"}
        THEN Together({Missing(<<v>>) : v \in absent}
                      \cup {ForEach(normal(v), information) : v \in Values(trustee)})
      ELSE ForEach(GetAllTrusteeNames(sys), information)

-----------------------------------------------------------------------------
(* Rights: below the key of a file, a registry key, a service or a printer     *)
(* are the trustees of its access control list, its owner and its group.      *)

\* GetSidsFromPACL and GetTrusteeNamesFromPACL: a trustee without an account has a
\* SID and an empty name.
GetSidsFromPACL(sys, at) == Listed(sys, at)

GetTrusteeNamesFromPACL(sys, at) == {GetFormattedTrusteeName(sys, t) : t \in Listed(sys, at)}

\* A trustee that is named need not be on the list; of one on the list it has to be
\* known whether it is a group if groups are to be resolved, and one that is none
\* is dropped then.
GetTrusteesForWindowsObject(sys, at, trustee, isSID, o) ==
  LET all == IF isSID THEN GetSidsFromPACL(sys, at) ELSE GetTrusteeNamesFromPACL(sys, at)
      exists(v) == IF isSID THEN TrusteeSIDExists(sys, v) ELSE TrusteeNameExists(sys, v)
      named == IF trustee.op = "equals" THEN Together({exists(v) : v \in Values(trustee)}) ELSE Nothing
      working == IF trustee.op = "equals" /\ ~trustee.ref THEN named.found
                 ELSE Matching(trustee, all \cup named.found)
      isGroup(t) == IF isSID THEN IsGroupSID(sys, t) ELSE IsGroup(sys, t)
      members(t) == IF isSID THEN ExpandGroupBySID(sys, t, Includes(o), TRUE)
                    ELSE ExpandGroup(sys, t, Includes(o), TRUE)
      resolved(t) == ForEach(isGroup(t), LAMBDA g : Resolved(sys, g, o, members(g)))
  IN  IF At(sys, at) # "there" \/ named.throws THEN Throws
      ELSE IF Resolves(o) THEN Together({resolved(t) : t \in working})
      ELSE Found(working)

ReportTrusteeDoesNotExist(sys, trustee, isSID) ==
  LET exists(v) == IF isSID THEN TrusteeSIDExists(sys, v) ELSE TrusteeNameExists(sys, v)
  IN  trustee.op = "equals" /\ ~trustee.nil /\ \E v \in Values(trustee) : exists(v).found = {}

\* The rights of a trustee, by the list of what it is asked for.
GetEffectiveRightsForWindowsObject(sys, key) ==
  IF At(sys, key) = "unreadable" THEN Throws ELSE Collected(key)

GetAuditedPermissionsForWindowsObject(sys, key) ==
  IF At(sys, key) = "unreadable" THEN Throws ELSE Collected(key)

\* The item is made between the SID and the rights: what fails before is only logged
\* and what fails after is its status.
WithRights(sid, rights, key) ==
  CASE sid.throws -> Throws
    [] ~sid.throws /\ sid.found = {} -> Nothing
    [] OTHER -> IF rights.throws THEN Outcome("error", key) ELSE rights

EffectiveByName(sys, at, t) ==
  WithRights(GetSIDForTrusteeName(sys, t), GetEffectiveRightsForWindowsObject(sys, Append(at, t)), Append(at, t))

EffectiveBySID(sys, at, t) ==
  WithRights(GetSIDForTrusteeSID(sys, t), GetEffectiveRightsForWindowsObject(sys, Append(at, t)), Append(at, t))

AuditedByName(sys, at, t) ==
  WithRights(GetSIDForTrusteeName(sys, t), GetAuditedPermissionsForWindowsObject(sys, Append(at, t)), Append(at, t))

AuditedBySID(sys, at, t) ==
  WithRights(GetSIDForTrusteeSID(sys, t), GetAuditedPermissionsForWindowsObject(sys, Append(at, t)), Append(at, t))

\* Whatever fails on the way to one list, or to one trustee, is only logged.
RightsOf(sys, at, trustee, isSID, o, Rights(_, _, _)) ==
  LET none == IF ReportTrusteeDoesNotExist(sys, trustee, isSID)
                THEN Missing(Append(at, << >>)) ELSE Nothing
      of(trustees) == Together({Logged(Rights(sys, at, t)) : t \in trustees})
  IN  Logged(OrNone(GetTrusteesForWindowsObject(sys, at, trustee, isSID, o), of, none))

\* The services and the printers are listed once.
GetAllServices(sys) ==
  Cached(sys, IF Fails(sys, "list") THEN Throws ELSE Found(Listed(sys, << >>)))

GetAllPrinters(sys) ==
  Cached(sys, IF Fails(sys, "list") THEN Throws ELSE Found(Listed(sys, << >>)))

ServiceExists(sys, t) == t \in GetAllServices(sys).found

PrinterExists(sys, t) == t \in GetAllPrinters(sys).found

\* ServiceEffectiveRightsProbe and PrinterEffectiveRightsProbe
GetEffectiveServices(sys, e) ==
  IF e.op = "equals" THEN Matching(e, {v \in Values(e) : ServiceExists(sys, v)})
  ELSE Matching(e, GetAllServices(sys).found)

GetPrinters(sys, e) ==
  IF e.op = "equals" THEN Matching(e, {v \in Values(e) : PrinterExists(sys, v)})
  ELSE Matching(e, GetAllPrinters(sys).found)

GetServiceEffectiveRights(sys, at, sid) == EffectiveBySID(sys, at, sid)

GetPrinterEffectiveRights(sys, at, sid) == EffectiveBySID(sys, at, sid)

\* The report of a missing trustee of a service goes through the trustees found,
\* which are none.
ServiceEffectiveRightsCollectItems(sys, o) ==
  LET trustee == Entity2(o)
      rights(t) == IF GetTrusteesForWindowsObject(sys, <<t>>, trustee, TRUE, o).found = {} THEN Nothing
                   ELSE RightsOf(sys, <<t>>, trustee, TRUE, o, GetServiceEffectiveRights)
  IN  IF ~Accepts(Entity1(o), ExactOperation) \/ ~Accepts(trustee, ExactOperation)
         \/ GetAllServices(sys).throws
        THEN Throws
      ELSE Together({rights(t) : t \in GetEffectiveServices(sys, Entity1(o))})

PrinterEffectiveRightsCollectItems(sys, o) ==
  LET trustee == Entity2(o)
  IN  IF ~Accepts(Entity1(o), ExactOperation) \/ ~Accepts(trustee, ExactOperation)
         \/ GetAllPrinters(sys).throws
        THEN Throws
      ELSE Together({RightsOf(sys, <<t>>, trustee, TRUE, o, GetPrinterEffectiveRights) :
                       t \in GetPrinters(sys, Entity1(o))})
================================================================================
