----------------------------- MODULE MCCommands -----------------------------
(* Five vaults of two profiles; logins that tie on every ranking key but one. *)
EXTENDS Commands

CONSTANTS priv, tmeta, team, inbox, admin, p1, p2

MCProfiles == {p1, p2}
MCVaultList == <<team, tmeta, priv, inbox, admin>>
MCKind == priv :> "Private" @@ tmeta :> "TeamMeta" @@ team :> "Team"
          @@ inbox :> "Inbox" @@ admin :> "OrganizationAdmin"
MCLocker == priv :> p1 @@ inbox :> p1 @@ tmeta :> p2 @@ team :> p2 @@ admin :> p2
MCPair == team :> tmeta
MCFreeName == priv :> "private" @@ inbox :> "inbox" @@ team :> None
MCNames == {"a", "b"}

Box(v, what) == [empty |-> FALSE, protected |-> TRUE,
                 value |-> Encrypt(SymKey(SecretOf(v, "high")), what)]
Custom(v, d) ==
    <<[id |-> 1, name |-> "pin", empty |-> FALSE, protected |-> FALSE, value |-> <<"clear">>],
      Box(v, <<"first", v, d>>) @@ [id |-> 2, name |-> "pin"],
      [id |-> 3, name |-> "password", empty |-> TRUE, protected |-> TRUE, value |-> <<>>]>>
E(v, d, time, names, deleted, archived, change) ==
    [time |-> time, names |-> names, deleted |-> deleted, archived |-> archived,
     change |-> change, edit |-> time, password |-> Box(v, <<"password", v, d>>),
     custom |-> Custom(v, d)]

MCLog == priv  :> <<1 :> E(priv, 1, 1, {"a"}, FALSE, FALSE, 5) @@ 2 :> E(priv, 2, 1, {"b"}, FALSE, FALSE, 0),
                    1 :> E(priv, 1, 2, {"a"}, TRUE, FALSE, 0),
                    2 :> E(priv, 2, 2, {"b"}, FALSE, FALSE, 0)>>
      @@ team  :> <<3 :> E(team, 3, 1, {"a", "b"}, FALSE, FALSE, 9)>>
      @@ inbox :> <<4 :> E(inbox, 4, 3, {"a"}, FALSE, FALSE, 0) @@ 5 :> E(inbox, 5, 1, {"a", "c"}, TRUE, TRUE, 0)
                    @@ 6 :> E(inbox, 6, 1, {"c"}, TRUE, FALSE, 9)>>
      @@ tmeta :> <<7 :> E(tmeta, 7, 1, {"old"}, TRUE, FALSE, 0) @@ 8 :> E(tmeta, 8, 1, {"staff"}, FALSE, FALSE, 0)>>
      @@ admin :> <<>>

F(vn, vi, ln, li, fn, fi) == [vaultName |-> vn, vaultId |-> vi, loginName |-> ln,
                              loginId |-> li, fieldName |-> fn, fieldId |-> fi]
MCFlags ==
    {F(vn, None, ln, None, None, None) : vn \in {None, "staff"}, ln \in {"a", "b", "c"}}
    \cup {F(None, vi, None, li, None, fi) : vi \in {None, admin}, li \in {3, 4}, fi \in {None, 2}}
    \cup {F("private", None, "a", None, "password", None), F("nobody", None, "a", None, None, None),
          F(None, None, "c", None, "title", None), F(None, team, None, 3, "pin", None),
          F(None, None, None, 4, None, 9), F(None, Malformed, "a", None, None, None),
          F("private", team, "a", None, None, None), F(None, None, None, None, "pin", None),
          F(None, None, None, Malformed, None, None), F(None, None, "a", None, "pin", 2)}

MCFaults ==
    {NoFault, <<"grant">>, <<"stranger grant">>, <<"no salt">>,
     <<"unpublished", <<"link", p1, 3>>>>, <<"published", <<"login signing">>>>,
     <<"published", <<"identity", "high">>>>}
    \cup {<<"published", <<"link", p1, n>>>> : n \in 3..8}
    \cup {<<what, p>> : what \in {"no lock"}, p \in MCProfiles}
    \cup {<<"seed", p, t>> : p \in MCProfiles, t \in Tiers}
    \cup {<<"secret", v, t>> : v \in {priv, tmeta}, t \in Tiers}
    \cup {<<what, v>> : what \in {"no vault lock", "stranger"}, v \in {priv, tmeta}}
    \cup {<<what, priv, i>> : what \in {"commit", "document"}, i \in {1, 3}}
=============================================================================
