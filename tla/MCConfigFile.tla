------------------------------ MODULE MCConfigFile ------------------------------
(* Small instances of ConfigFile: the files it starts with.                    *)
EXTENDS ConfigFile

Block(ind, mode) ==
  <<Key(ind, "access_control", ""), Noted(Key(2 * ind, "mode", mode)), Key(2 * ind, "networks", "[]")>>
Legacy(ind, remote) == <<Key(ind, "enable_remote_connection", remote)>>

(* A file in the layout of the repository's config.yaml, or in another one:   *)
(* "legacy" has the flag that access_control replaced and no storage.enable,  *)
(* "noted" has a comment behind a section's name and a mode that does not      *)
(* exist, "compact" does not indent its list items, "wide" is indented by four  *)
(* spaces, and "unfinished" ends without a newline.                           *)
Written(style) ==
  LET in     == IF style = "wide" THEN 2 ELSE 1
      item   == IF style = "compact" THEN in ELSE 2 * in
      access == CASE style = "legacy" -> Legacy(in, "true")
                  [] style = "noted"  -> Block(in, "everyone")
                  [] OTHER            -> Block(in, "loopback")
      proxy  == IF style = "noted" THEN Noted(Key(0, "proxy", "")) ELSE Key(0, "proxy", "")
      webui  == <<Key(0, "webui", "")>> \o access \o <<Key(in, "port", "9000")>>
      last   == [webui EXCEPT ![Len(webui)].nl = style # "unfinished"]
  IN <<proxy, Key(in, "port", "3128"), Comment(1)>> \o access
     \o <<BlankLine(0), Key(in, "output_proxy_uri", ""), Key(in, "add_windows_authentication", "false"),
          Key(in, "no_proxy", ""), Item(item, "corp"), Comment(0), Key(in, "treat_401", "true"),
          Key(0, "storage", "")>>
     \o (IF style = "legacy" THEN <<>> ELSE <<Noted(Key(in, "enable", "true"))>>)
     \o <<Key(in, "folder", "captures"),
          Key(0, "decrypt_https", ""), Noted(Key(in, "enabled", "false")), Key(in, "cert_manager", ""),
          Key(2 * in, "ca_cert_file", "ca"), Key(in, "mime_types", ""),
          Item(item, "text/*"), Key(item + 1, "max_size", "2M"), Item(item, "text/html"), Comment(0)>>
     \o last

AnyWord == STRING

UsualTexts   == {Written(style) : style \in {"shipped", "legacy", "noted"}}
CompactTexts == {Written("compact")}

(* The theorems of ConfigFile_proofs are about files in this layout.            *)
ASSUME UsualTextsAreTidy == \A text \in UsualTexts : Tidy(text)
ASSUME OthersAreNot == \A style \in {"compact", "wide", "unfinished"} : ~Tidy(Written(style))
=============================================================================
