--------------------------------- MODULE Api ---------------------------------
(***************************************************************************)
(* What the configurator's HTTP layer lets through to a handler. A guard   *)
(* looks at the API key in the header, then a pipe at the body: it holds   *)
(* the body against the class the handler declares for it.                 *)
(*                                                                         *)
(* A body is flat here: the fields of the objects in it stand beside its   *)
(* own. Of a field it matters whether it is there and of the right type.   *)
(***************************************************************************)

\* "absent" is an empty string, too.
Kind == {"absent", "wrong", "right"}
IsOptional == {"absent", "right"}
IsNotEmpty == {"right"}

\* The rules of a class: fields, and the kinds a field may be of. The objects in
\* a body that are optional have optional fields only.
ProviderAuthConfigDto == {<<"refreshToken", IsOptional>>}
ProviderConfigDto ==
  {<<"spreadsheetId", IsOptional>>, <<"workbookId", IsOptional>>, <<"driveId", IsOptional>>,
   <<"timezone", IsOptional>>, <<"auth", IsNotEmpty>>} \cup ProviderAuthConfigDto
CreateDataProviderDto ==
  {<<"type", IsNotEmpty>>, <<"config", IsNotEmpty>>, <<"metadata", IsOptional>>}
  \cup ProviderConfigDto

DataSourceConfigDto == ProviderConfigDto \cup {<<"worksheetId", IsOptional>>}
CreateDataSourceDto ==
  {<<"type", IsNotEmpty>>, <<"config", IsNotEmpty>>, <<"metadata", IsOptional>>}
  \cup DataSourceConfigDto

CreateSyncConnectionDto ==
  {<<"sourceId", IsNotEmpty>>, <<"config", IsOptional>>, <<"auth", IsOptional>>,
   <<"trigger", IsOptional>>, <<"frequency", IsOptional>>} \cup ProviderAuthConfigDto

\* A parameter of the path is a string, whatever it is of.
PathParameter == {<<"id", Kind>>}

Fields(dto) == {rule[1] : rule \in dto}
Body(dto) == [Fields(dto) -> Kind]
validate(dto, body) == \A rule \in dto : body[rule[1]] \in rule[2]

\* Only classes are validated.
toValidate(dto) == dto # PathParameter
transform(dto, body) == toValidate(dto) => validate(dto, body)

Header == {"none", "unknown", "known"}
apiKeys == {"known"}
canActivate(header) == header # "none" /\ header \in apiKeys

\* The bodies of the requests that reach a handler: the guard comes first.
LetThrough(dto) ==
  {body \in Body(dto) : transform(dto, body) /\ \E header \in Header : canActivate(header)}

DataProviderRequests == LetThrough(CreateDataProviderDto)
DataSourceRequests == LetThrough(CreateDataSourceDto)
SyncConnectionRequests == LetThrough(CreateSyncConnectionDto)
ByIdRequests == LetThrough(PathParameter)
=============================================================================
