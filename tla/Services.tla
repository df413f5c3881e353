------------------------------ MODULE Services ------------------------------
(***************************************************************************)
(* Requests that overlap: what each service checks or reads in one         *)
(* statement and writes in another.  The services here share no state, so   *)
(* each behaviour is one of one of them: focus is the one, and the others   *)
(* stay as they begin.                                                      *)
(***************************************************************************)
EXTENDS ProxyClients

CONSTANTS
    Requests,                                   \* of every service
    RootRoles, ResetTokens, MaxPassword,        \* of Accounts
    Projects,                                   \* of FeatureRow
    Segs, SegmentNames, Strategies, Limit,      \* of Segments
    GroupIds, GroupNames, Members,              \* of GroupMembers
    Envs, Overrides, Linked, Servers, MaxRestarts,  \* of EnvironmentOverride
    VariantNames, TotalWeight,                  \* of Variants
    Imported, Secrets                           \* of StateImport

VARIABLES
    focus,
    user, password, rootRoles, sessions, token, uses, validFrom, accountReq, overlapped,
    feature, featureReq, featureAsked, featureRaced,
    segments, links, segmentReq, segmentRaced,
    groups, members, groupReq, groupAsked, groupRaced,
    enabled, projectLinks, server, restarts,
    stored,
    environments, tokenEnv, creating, import, deleting

accountVars == <<user, password, rootRoles, sessions, token, uses, validFrom, accountReq, overlapped>>
featureVars == <<feature, featureReq, featureAsked, featureRaced>>
segmentVars == <<segments, links, segmentReq, segmentRaced>>
groupVars == <<groups, members, groupReq, groupAsked, groupRaced>>
overrideVars == <<enabled, projectLinks, server, restarts>>
importVars == <<environments, tokenEnv, creating, import, deleting>>
allVars == <<focus, vars, accountVars, featureVars, segmentVars, groupVars, overrideVars,
             stored, importVars>>

Ac == INSTANCE Accounts WITH Roles <- RootRoles, Tokens <- ResetTokens, req <- accountReq
Fe == INSTANCE FeatureRow WITH
          req <- featureReq, asked <- featureAsked, raced <- featureRaced
Sg == INSTANCE Segments WITH Names <- SegmentNames, req <- segmentReq, raced <- segmentRaced
Gr == INSTANCE GroupMembers WITH
          Names <- GroupNames, Users <- Members,
          req <- groupReq, asked <- groupAsked, raced <- groupRaced
Ov == INSTANCE EnvironmentOverride WITH Projects <- Linked, links <- projectLinks
Va == INSTANCE Variants WITH Names <- VariantNames, Total <- TotalWeight
Im == INSTANCE StateImport WITH Envs <- Imported, Tokens <- Secrets, Imports <- Requests

-----------------------------------------------------------------------------
InFocus(part) == focus = part /\ UNCHANGED focus

ServicesInit ==
    /\ focus \in {"proxy", "accounts", "features", "segments", "groups", "override", "variants",
                  "import"}
    /\ Init
    /\ Ac!Init
    /\ Fe!Init
    /\ Sg!Init
    /\ Gr!Init
    /\ Ov!Init
    /\ Va!Init
    /\ Im!Init

ServicesNext ==
    \/ /\ InFocus("proxy") /\ Next
       /\ UNCHANGED <<accountVars, featureVars, segmentVars, groupVars, overrideVars,
                      stored, importVars>>
    \/ /\ InFocus("accounts") /\ Ac!Next
       /\ UNCHANGED <<vars, featureVars, segmentVars, groupVars, overrideVars, stored,
                      importVars>>
    \/ /\ InFocus("features") /\ Fe!Next
       /\ UNCHANGED <<vars, accountVars, segmentVars, groupVars, overrideVars, stored,
                      importVars>>
    \/ /\ InFocus("segments") /\ Sg!Next
       /\ UNCHANGED <<vars, accountVars, featureVars, groupVars, overrideVars, stored,
                      importVars>>
    \/ /\ InFocus("groups") /\ Gr!Next
       /\ UNCHANGED <<vars, accountVars, featureVars, segmentVars, overrideVars, stored,
                      importVars>>
    \/ /\ InFocus("override") /\ Ov!Next
       /\ UNCHANGED <<vars, accountVars, featureVars, segmentVars, groupVars, stored, importVars>>
    \/ /\ InFocus("variants") /\ Va!Next
       /\ UNCHANGED <<vars, accountVars, featureVars, segmentVars, groupVars,
                      overrideVars, importVars>>
    \/ /\ InFocus("import") /\ Im!Next
       /\ UNCHANGED <<vars, accountVars, featureVars, segmentVars, groupVars,
                      overrideVars, stored>>

ServicesSpec == ServicesInit /\ [][ServicesNext]_allVars
-----------------------------------------------------------------------------
(* The properties of the parts (those of the proxy are in ProxyClients).    *)

OneRootRole == Ac!OneRootRole
OneActiveLink == Ac!OneActiveLink
UsedOnce == Ac!UsedOnce
SessionsEnd == Ac!SessionsEnd
LostOnlyByRaces == Fe!LostOnlyByRaces
DeletedWhenArchived == Fe!DeletedWhenArchived
SegmentNamesUnique == Sg!SegmentNamesUnique
SegmentLimitKept == Sg!SegmentLimitKept
GroupNamesUnique == Gr!GroupNamesUnique
MembersAsAsked == Gr!MembersAsAsked
StartRemaps == Ov!StartRemaps
WeightsAddUp == Va!WeightsAddUp
ShareIsWeight == Va!ShareIsWeight
SparesLivingTokens == Im!SparesLivingTokens
=============================================================================
