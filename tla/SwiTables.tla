------------------------------ MODULE SwiTables ------------------------------
(***************************************************************************)
(* The shims of the runtime: for every function of rostrt/swis_*.c the     *)
(* registers that are inputs and those that are outputs of its asm         *)
(* statement, file by file (a long file is cut in parts), and the          *)
(* hand-written shims with the constraints of theirs.  Names, types and    *)
(* null tests are the same for all generated shims: Generated says what    *)
(* the generator makes of a row.  What a SWI takes does not come from its  *)
(* shim: Documented has it, for the few SWIs of which the repository says  *)
(* it elsewhere, and a hand-written shim has it in its comment.            *)
(***************************************************************************)
EXTENDS SwiShim

\* The arguments of OS_WriteC and OS_Write0, of OS_Exit and of
\* OS_SWINumberFromString, from the code that issues these SWIs by hand.  Of
\* the other SWIs that have a generated shim the repository says nothing.
Documented(n) ==
  CASE n \in {\h0, \h2} -> {0}
    [] n = \h11 -> {0, 2}
    [] n = \h39 -> {1}
    [] OTHER -> {}

\* The shims of the SWIs with these numbers, one per number.
Swis(entry, exit, numbers) ==
  {Generated(n, Documented(n), entry, exit) : n \in numbers}

\* ADFS_ControllerType to ADFS_VetFormat
Adfs ==
  Swis({}, {}, {\h40240, \h40242, \h40243, \h40245, \h40247, \h4024C, \h4024D, \h40250, \h40252})
  \cup Swis({0}, {}, {\h40248, \h40251})
  \cup Swis({0,1}, {}, {\h40246})
  \cup Swis({0,1}, {1,2,3}, {\h40244})

\* BASICTrans_Error to BASICTrans_Message
Basictrans ==
  Swis({0,1}, {}, {\h42C81, \h42C82})
  \cup Swis({0,1,2}, {}, {\h42C80})

\* Buffer_Create to Buffer_UnlinkDevice
Buffer ==
  Swis({0}, {}, {\h42941, \h42943, \h42946})
  \cup Swis({0}, {1,2,3,4,5,6}, {\h42947})
  \cup Swis({0,1}, {1}, {\h42948})
  \cup Swis({0,1,2}, {}, {\h42940})
  \cup Swis({0,1,2}, {1,2}, {\h42944})
  \cup Swis({0,1,2,3}, {}, {\h42942})

\* Cache_Cacheable to Cache_Updateable
Cache ==
  Swis({}, {}, {\h284})
  \cup Swis({0,1}, {0}, {\h280, \h281, \h282, \h283})

\* ColourPicker_CloseDialogue to ColourPicker_UpdateDialogue
ColourPicker ==
  Swis({}, {}, {\h47700, \h47701, \h47704, \h47706, \h47708})
  \cup Swis({0,1}, {}, {\h47703, \h47707})
  \cup Swis({0,1}, {0}, {\h47702})
  \cup Swis({0,1,2}, {1}, {\h47705})

\* ColourTrans_ColourNumberToGCOL to ColourTrans_ReturnColourNumber
ColourTransA ==
  Swis({}, {}, {\h40750, \h4075F, \h40763})
  \cup Swis({0}, {0}, {\h40744, \h4074C, \h4074D})
  \cup Swis({0}, {1}, {\h40752})
  \cup Swis({0,1,2}, {0,1,2}, {\h40755, \h40756, \h40758, \h40759})
  \cup Swis({0,1,2}, {0,1,2,3}, {\h4075A})
  \cup Swis({0,1,2,3}, {}, {\h40754})
  \cup Swis({0,1,2,3}, {0,1,2}, {\h4075B})
  \cup Swis({1,3}, {2}, {\h40753})

\* ColourTrans_ReturnColourNumberForMode to ColourTrans_WriteLoadingsToFile
ColourTransB ==
  Swis({0}, {}, {\h40751})
  \cup Swis({0}, {0}, {\h40742, \h40747, \h40749})
  \cup Swis({0,1}, {}, {\h40757})
  \cup Swis({0,1,2}, {0}, {\h40745, \h40746, \h4074A, \h4074B})
  \cup Swis({0,1,2,3}, {2,3}, {\h4074E, \h4074F})
  \cup Swis({0,3}, {0}, {\h40761, \h40762})
  \cup Swis({1}, {}, {\h40760})

\* CompressJPEG_Finish to CompressJPEG_WriteLine
CompressJpeg ==
  Swis({0}, {0}, {\h4A502})
  \cup Swis({0,1}, {}, {\h4A501})

\* Debugger_Disassemble
Debugger ==
  Swis({}, {}, {\h40380})

\* DeviceFS_Deregister to DeviceFS_Threshold
DeviceFs ==
  Swis({0}, {}, {\h42741})
  \cup Swis({0,1}, {}, {\h42742, \h42743, \h42746})
  \cup Swis({1,2}, {}, {\h42745})

\* DMA_DeregisterChannel to DMA_TerminateTransfer
Dma ==
  Swis({0}, {}, {\h46141})
  \cup Swis({0,1}, {}, {\h46143, \h46144, \h46145})

\* DOSFS_DiscFormat to DOSFS_LayoutStructure
Dosfs ==
  Swis({0,1,2,3}, {}, {\h44B00, \h44B01})

\* DragAnObject_Stop
DragAnObject ==
  Swis({}, {}, {\h49C41})

\* DragASprite_Stop
DragAsprite ==
  Swis({}, {}, {\h42401})

\* DrawFile_DeclareFonts to Draw_TransformPath
Draw ==
  Swis({}, {}, {\h40700, \h45542})
  \cup Swis({0,1,2}, {}, {\h40708})
  \cup Swis({0,1,2,3}, {}, {\h40702, \h4070A})

\* DrawFile_DeclareFonts
DrawFile ==
  Swis({}, {}, {\h45542})

\* Econet_AbandonAndReadReceive to Econet_ReadLocalStationAndNet
EconetA ==
  Swis({}, {}, {\h40010, \h4001D, \h40021})
  \cup Swis({}, {0}, {\h40013})
  \cup Swis({}, {0,1}, {\h4000A})
  \cup Swis({}, {0,1,2}, {\h40020})
  \cup Swis({0}, {}, {\h40005, \h40014, \h40015, \h4001F})
  \cup Swis({0}, {0}, {\h40001, \h40003, \h40007, \h40008})
  \cup Swis({0}, {0,1,2,3,4,5,6}, {\h40018})
  \cup Swis({0,1}, {2}, {\h4001A, \h4001B})

\* Econet_ReadProtection to Econet_WaitForReception
EconetB ==
  Swis({}, {0}, {\h4000D})
  \cup Swis({0}, {}, {\h40012})
  \cup Swis({0}, {0,1,2,3,4,5,6}, {\h40002})
  \cup Swis({0,1}, {0}, {\h4000E})
  \cup Swis({0,1}, {2}, {\h40019, \h4001C})
  \cup Swis({0,1,2}, {0,1,2,3,4,5,6}, {\h40004})
  \cup Swis({0,1,2}, {2}, {\h40011})
  \cup Swis({1}, {2,3}, {\h4000F})

\* FileCore_DiscFormat to FileCore_LayoutStructure
FileCore ==
  Swis({}, {}, {\h40540})
  \cup Swis({0,1,2,3}, {}, {\h40544, \h40547, \h40548})

\* FilerAction_SendSelectedDirectory to FilerAction_SendStartOperation
FilerAction ==
  Swis({}, {}, {\h40F82})
  \cup Swis({0,1}, {}, {\h40F80, \h40F81})

\* Filter_DeRegisterPreFilter
Filter ==
  Swis({0,1,2,3}, {}, {\h42642})

\* Font_ApplyFields to Font_LookupFont
FontA ==
  Swis({}, {0,1,2,3}, {\h4008B, \h4008C, \h400A3, \h400A4})
  \cup Swis({}, {0,2,3}, {\h40080})
  \cup Swis({0,1,2}, {1,2,3,4}, {\h4008E})
  \cup Swis({0,1,2}, {2}, {\h400A8})
  \cup Swis({0,1,2,3}, {}, {\h400A7})
  \cup Swis({1,2}, {}, {\h400A6})
  \cup Swis({1,2}, {1,2}, {\h40088, \h40089})
  \cup Swis({1,2,3}, {2,3,4,5}, {\h4008D})

\* Font_LoseFont to Font_SetThresholds
FontB ==
  Swis({}, {}, {\h40086, \h400A2})
  \cup Swis({}, {0,1}, {\h4009C})
  \cup Swis({}, {1,2}, {\h4008F})
  \cup Swis({0}, {}, {\h40082, \h4008A})
  \cup Swis({0}, {1,2,3,4}, {\h40084})
  \cup Swis({0,1,2}, {}, {\h4009D})
  \cup Swis({0,1,2}, {0}, {\h400A5})
  \cup Swis({0,1,2,3}, {}, {\h40092})
  \cup Swis({0,1,3}, {2,3,4,5,6,7}, {\h40083})
  \cup Swis({1}, {}, {\h40094, \h40095, \h40098})
  \cup Swis({1,2}, {}, {\h40090})

\* Font_StringBBox to Font_UnCacheFile
FontC ==
  Swis({0,1}, {0}, {\h4009E})
  \cup Swis({1}, {2,3,4}, {\h40097})
  \cup Swis({1,2}, {}, {\h4009A})

\* FPEmulator_Version
Fpemulator ==
  Swis({}, {0}, {\h40480})

\* FSLock_Status to FSLock_Version
Fslock ==
  Swis({}, {0,1}, {\h44780, \h44781})

\* Hourglass_Colours to Hourglass_Start
Hourglass ==
  Swis({}, {}, {\h406C0, \h406C1, \h406C2})
  \cup Swis({0}, {}, {\h406C3, \h406C4})
  \cup Swis({0}, {0}, {\h406C5})
  \cup Swis({0,1}, {0,1}, {\h406C6})

\* IIC_Control
Iic ==
  Swis({0,1,2}, {}, {\h240})

\* Joystick_CalibrateTopRight
Joystick ==
  Swis({}, {}, {\h43F41})

\* JPEG_FileInfo to JPEG_PlotTransformed
Jpeg ==
  Swis({0}, {0}, {\h49986})
  \cup Swis({0,1}, {0,2,3,4,5,6}, {\h49981})
  \cup Swis({0,1,2}, {}, {\h49985})
  \cup Swis({0,1,2}, {0,2,3,4,5,6}, {\h49980})
  \cup Swis({0,1,2,3}, {}, {\h49984})

\* MakePSFont_MakeFont
MakePsfont ==
  Swis({}, {}, {\h43440})

\* MessageTrans_CloseFile to MessageTrans_OpenFile
MessageTrans ==
  Swis({0}, {}, {\h41504, \h41508})
  \cup Swis({0,1,2}, {}, {\h41501})
  \cup Swis({0,1,2,3}, {}, {\h41503})
  \cup Swis({1}, {0,2}, {\h41500})

\* NetFS_ConvertDate to NetFS_UpdateFSList
NetFs ==
  Swis({}, {}, {\h40044, \h40045, \h40051})
  \cup Swis({}, {0,1}, {\h40040})
  \cup Swis({}, {0,1,2,3,4,5}, {\h40046})
  \cup Swis({0}, {}, {\h40043})
  \cup Swis({0,1}, {}, {\h40041, \h4004B, \h4004D})
  \cup Swis({0,1,2,3}, {0}, {\h40048})
  \cup Swis({0,1,2,3}, {0,3}, {\h40049, \h4004A, \h4004E})
  \cup Swis({1,2}, {}, {\h4004F})
  \cup Swis({1,2}, {0}, {\h40042})

\* NetPrint_BindPSName to NetPrint_SetPSNumber
NetPrint ==
  Swis({}, {}, {\h40208})
  \cup Swis({}, {0,1}, {\h40200})
  \cup Swis({}, {0,1,2,3,4,5}, {\h40204})
  \cup Swis({0}, {}, {\h40203})
  \cup Swis({0}, {1}, {\h40206})
  \cup Swis({0,1}, {}, {\h40201})
  \cup Swis({0,1,2,3}, {0,3}, {\h40207})
  \cup Swis({1,2}, {0}, {\h40202})

\* OS_AddCallBack to OS_ChangedBox
OsA ==
  Swis({}, {}, {\h17})
  \cup Swis({0}, {}, {\h5})
  \cup Swis({0}, {0,1}, {\h5A})
  \cup Swis({0,1}, {}, {\hB, \h15, \h18, \h54})
  \cup Swis({0,1}, {1}, {\h6, \h2A, \h5E})
  \cup Swis({0,1,2}, {}, {\h3B, \h3C, \h47})
  \cup Swis({0,1,2}, {2}, {\h28})
  \cup Swis({0,1,2,3}, {0}, {\h5B})
  \cup Swis({0,1,2,3}, {2}, {\h40})
  \cup Swis({1}, {0}, {\hA})

\* OS_CheckModeValid to OS_ExitAndDie
OsB ==
  Swis({}, {0}, {\h59})
  \cup Swis({0}, {1}, {\h3F})
  \cup Swis({0,1}, {}, {\h4D})
  \cup Swis({0,1}, {1}, {\h16})
  \cup Swis({0,1}, {1,2}, {\h41})
  \cup Swis({0,1,2}, {}, {\h11, \h1F, \h2D, \hC0, \hE9, \hEA})
  \cup Swis({0,1,2}, {0}, {\hEB, \hEC})
  \cup Swis({0,1,2,3}, {}, {\hF, \h50, \hC1})

\* OS_GSInit to OS_ReadMemMapInfo
OsC ==
  Swis({}, {}, {\h13, \h14, \h2C, \h3E})
  \cup Swis({}, {0,1}, {\h51})
  \cup Swis({}, {0,1,2}, {\h10})
  \cup Swis({}, {0,1,2,3}, {\h1C})
  \cup Swis({0}, {}, {\h2B, \h52, \h5D})
  \cup Swis({0}, {0,1}, {\h5C})
  \cup Swis({0,1,2}, {}, {\h27, \h44, \h45})
  \cup Swis({0,1,2}, {0}, {\h49})
  \cup Swis({0,2}, {0,1,2}, {\h26})
  \cup Swis({0,2}, {1,2}, {\h25})

\* OS_ReadModeVariable to OS_SetColour
OsD ==
  Swis({}, {}, {\h1B, \h36, \h37, \h5F})
  \cup Swis({}, {0}, {\h42})
  \cup Swis({}, {0,1}, {\h4A})
  \cup Swis({0,1}, {}, {\h31, \h3D, \h61})
  \cup Swis({0,1}, {2}, {\h35})
  \cup Swis({0,1}, {2,3}, {\h2F})
  \cup Swis({0,1}, {2,3,4}, {\h32})
  \cup Swis({0,1,2}, {}, {\h20, \h38})
  \cup Swis({0,1,2}, {2}, {\h21})
  \cup Swis({1}, {}, {\h30})
  \cup Swis({1}, {0}, {\h39})

\* OS_SetECFOrigin to OS_WriteS
OsE ==
  Swis({}, {}, {\h1})
  \cup Swis({0}, {}, {\h0, \h2, \h19, \h53})
  \cup Swis({0,1}, {}, {\h3A, \h46, \h48, \h56})
  \cup Swis({0,1}, {0,1}, {\h1A})

\* Parallel_HardwareAddress
Parallel ==
  Swis({}, {}, {\h42EC0})

\* PDriver_AbortJob to PDriver_RemoveDriver
PdriverA ==
  Swis({}, {}, {\h80147})
  \cup Swis({}, {0}, {\h80146})
  \cup Swis({}, {0,1,2,3,4,5,6,7}, {\h80140})
  \cup Swis({}, {1,2,3,4,5,6}, {\h80143})
  \cup Swis({0}, {}, {\h80148, \h80149, \h8014E, \h80157})
  \cup Swis({0}, {0}, {\h80150})
  \cup Swis({0}, {0,1}, {\h80159})
  \cup Swis({0,1}, {}, {\h80142, \h80152})
  \cup Swis({0,1,2}, {}, {\h80155})
  \cup Swis({0,1,2,3}, {0,2}, {\h8014C})
  \cup Swis({1}, {0,2}, {\h8014D})

\* PDriver_Reset to PDriver_SetPrinter
PdriverB ==
  Swis({}, {}, {\h8014A, \h80151})
  \cup Swis({0}, {}, {\h8014F})
  \cup Swis({0}, {0}, {\h80158})
  \cup Swis({0,1}, {0}, {\h80145, \h80153})

\* PDumper_CopyFilename to PDumper_StartJob
Pdumper ==
  Swis({}, {0,1}, {\h41B00})
  \cup Swis({0,1}, {}, {\h41B08})
  \cup Swis({0,1,2}, {}, {\h41B04, \h41B09})
  \cup Swis({0,2}, {}, {\h41B02, \h41B03})

\* Podule_CallLoader to Podule_WriteBytes
Podule ==
  Swis({}, {0,1}, {\h4028C})
  \cup Swis({0,1,2,3}, {}, {\h40284, \h40285, \h40287, \h40288, \h4028D})
  \cup Swis({0,2,3}, {}, {\h40283})
  \cup Swis({0,3}, {0}, {\h40286})
  \cup Swis({0,3}, {0,1,2}, {\h40282, \h4028A})
  \cup Swis({2,3}, {}, {\h40281})
  \cup Swis({3}, {}, {\h40289})
  \cup Swis({3}, {0}, {\h40280})
  \cup Swis({3}, {0,1}, {\h4028B})

\* Portable_Control to Portable_WriteBMUVariable
Portable ==
  Swis({0}, {1}, {\h42FC2})
  \cup Swis({0,1}, {}, {\h42FC3})
  \cup Swis({0,1}, {0,1}, {\h42FC0, \h42FC1})

\* RamFS_DescribeDisc to RamFS_FreeSpace
RamFs ==
  Swis({}, {}, {\h40780, \h40782, \h40783, \h40785})

\* ResourceFS_DeregisterFiles to ResourceFS_RegisterFiles
ResourceFs ==
  Swis({}, {}, {\h41B41})
  \cup Swis({0}, {}, {\h41B40})

\* ScreenBlanker_Control
ScreenBlanker ==
  Swis({}, {}, {\h43100})

\* SharedCLibrary_LibInitAPCS_A to SharedCLibrary_LibInitAPCS_R
SharedClibrary ==
  Swis({}, {}, {\h80680, \h80681})

\* Shell_Create
Shell ==
  Swis({}, {}, {\h405C0})

\* Sound_AttachNamedVoice to Sound_SoundLog
SoundA ==
  Swis({}, {}, {\h401C2, \h401C4, \h401C7})
  \cup Swis({}, {0}, {\h401C0, \h401C3})
  \cup Swis({0}, {}, {\h40188})
  \cup Swis({0}, {0}, {\h40141, \h40181, \h40182, \h401C5, \h401C6})
  \cup Swis({0,1}, {}, {\h40186, \h4018A})
  \cup Swis({0,1}, {1}, {\h40185})
  \cup Swis({0,1}, {2}, {\h4018B})
  \cup Swis({0,1,2,3}, {}, {\h40189})
  \cup Swis({0,1,2,3}, {0}, {\h401C1})
  \cup Swis({1}, {0,1}, {\h40184})

\* Sound_Speaker to Sound_WriteControlBlock
SoundB ==
  Swis({0}, {0}, {\h40143, \h40180, \h40187})
  \cup Swis({0,1}, {1}, {\h40142})
  \cup Swis({0,1,2}, {2}, {\h4018C})

\* TaskManager_EnumerateTasks to TaskManager_TaskNameFromHandle
TaskManager ==
  Swis({0}, {}, {\h42682})
  \cup Swis({0}, {0}, {\h42680})
  \cup Swis({0,1,2}, {0}, {\h42681})

\* Territory_Alphabet to Territory_NameToNumber
TerritoryA ==
  Swis({}, {}, {\h43075})
  \cup Swis({0}, {}, {\h43042, \h43044})
  \cup Swis({0}, {0}, {\h43052, \h43053, \h43057, \h43059})
  \cup Swis({0,1}, {0}, {\h43056, \h43060})
  \cup Swis({0,1,2}, {}, {\h43045, \h4304F, \h43051})
  \cup Swis({0,1,2,3}, {0}, {\h4304C, \h4304D, \h4304E, \h4305D})
  \cup Swis({1,2}, {}, {\h43049})

\* Territory_Number to Territory_WriteDirection
TerritoryB ==
  Swis({}, {0}, {\h43040})
  \cup Swis({}, {0,1}, {\h43048})
  \cup Swis({0}, {}, {\h43046, \h43047, \h43054})
  \cup Swis({0}, {0}, {\h43055, \h43058, \h4305A, \h4305B, \h4305C})
  \cup Swis({0}, {0,1,2,3}, {\h4304A})
  \cup Swis({0,1,2}, {}, {\h43041, \h43043, \h4305F})
  \cup Swis({0,1,2,3}, {0}, {\h43061})

\* Wimp_AddMessages to Wimp_GetPointerInfo
WimpA ==
  Swis({}, {}, {\h400DA, \h400FB})
  \cup Swis({}, {0,1}, {\h400EA})
  \cup Swis({0}, {}, {\h400EF, \h400F6})
  \cup Swis({0,1}, {0}, {\h400C2})
  \cup Swis({0,1}, {1,2}, {\h400EE})
  \cup Swis({0,1,2,3}, {}, {\h400F4})
  \cup Swis({1}, {}, {\h400C3, \h400C4, \h400C6, \h400CE, \h400CF, \h400D0, \h400D3})
  \cup Swis({1}, {0}, {\h400C1})
  \cup Swis({1,2,3}, {}, {\h400D4, \h400D5, \h400E8})

\* Wimp_GetRectangle to Wimp_SetColour
WimpB ==
  Swis({}, {}, {\h400CB, \h400ED, \h400F5, \h400FC})
  \cup Swis({0}, {}, {\h400DC, \h400E6, \h400F7})
  \cup Swis({0}, {0}, {\h400F2})
  \cup Swis({0,1,2}, {1}, {\h400DF})
  \cup Swis({0,1,2,3}, {2}, {\h400E7})
  \cup Swis({0,1,3}, {0}, {\h400C7})
  \cup Swis({1}, {}, {\h400C5, \h400CC, \h400D9, \h400E0, \h400E2, \h400E5})
  \cup Swis({1}, {0}, {\h400C8, \h400CA})

\* Wimp_SetExtent to Wimp_WhichIcon
WimpC ==
  Swis({0}, {}, {\h400DE, \h400E3, \h400F0})
  \cup Swis({0,1}, {}, {\h400D7, \h400FA})
  \cup Swis({0,1}, {0,1,2}, {\h400EC})
  \cup Swis({0,1,2,3}, {}, {\h400D6})
  \cup Swis({1}, {}, {\h400CD, \h400E4})
  \cup Swis({1}, {0}, {\h400C9})
  \cup Swis({1,2}, {}, {\h400F3})

GeneratedShims ==
  Adfs \cup Basictrans \cup Buffer \cup Cache \cup ColourPicker \cup
  ColourTransA \cup ColourTransB \cup CompressJpeg \cup Debugger \cup
  DeviceFs \cup Dma \cup Dosfs \cup DragAnObject \cup DragAsprite \cup
  Draw \cup DrawFile \cup EconetA \cup EconetB \cup FileCore \cup
  FilerAction \cup Filter \cup FontA \cup FontB \cup FontC \cup Fpemulator
  \cup Fslock \cup Hourglass \cup Iic \cup Joystick \cup Jpeg \cup
  MakePsfont \cup MessageTrans \cup NetFs \cup NetPrint \cup OsA \cup OsB
  \cup OsC \cup OsD \cup OsE \cup Parallel \cup PdriverA \cup PdriverB
  \cup Pdumper \cup Podule \cup Portable \cup RamFs \cup ResourceFs \cup
  ScreenBlanker \cup SharedClibrary \cup Shell \cup SoundA \cup SoundB
  \cup TaskManager \cup TerritoryA \cup TerritoryB \cup WimpA \cup WimpB
  \cup WimpC

-----------------------------------------------------------------------------
\* rostrt.c: os_writec, os_write0, os_getenv, os_mem_limit.  os_exit does not
\* return.
OsWritec == Shim(\h0, {0}, {}, {0}, {0}, {1, 2, 3, 12, LR}, None, {})
OsWrite0 == Shim(\h2, {0}, {}, {0}, {}, {1, 2, 3, 12, LR}, None, {})
OsGetenv == Shim(\h10, {}, {0, 1}, {}, {0, 1}, {2, 3, 12, LR}, 0, {})
OsMemLimit == Shim(\h10, {}, {0, 1}, {}, {0, 1}, {2, 3, 12, LR}, 1, {})

\* OS_Heap in the X form: reason 0 initialises, 2 claims, 3 frees.
HeapInit == Shim(\h2001D, {0, 1, 3}, {}, {0, 1, 3}, {0, 1, 3}, {2, 12, LR}, None, {})
HeapAlloc == Shim(\h2001D, {0, 1, 3}, {2}, {0, 1, 3}, 0..3, {12, LR}, 2, {})
HeapFree == Shim(\h2001D, 0..2, {}, 0..2, 0..2, {3, 12, LR}, None, {})

\* modrt.c, whose os_write0 and os_writec are those of rostrt.c again.
ModWrite0 == OsWrite0
ModWritec == OsWritec
ModNewline == Shim(\h3, {}, {}, {}, {}, {0, 1, 2, 3, 12, LR}, None, {})
\* The block comes in r2; r1 receives the flags after the SWI.
ModClaim == Shim(\h2001E, {0, 3}, {1, 2}, {0, 3}, {1, 2}, {12, LR}, 2, {})
ModFree == Shim(\h2001E, {0, 2}, {}, {0, 2}, {}, {1, 3, 12, LR}, None, {})

\* wimp.c.  Mistake: r3, the list of messages, as scratch.
WimpInitialiseListClobbered ==
  Shim(\h400C0, 0..3, {0, 1}, 0..2, {0, 1}, {3, 12, LR}, 1, {0})

WimpInitialise == Shim(\h400C0, 0..3, {0, 1}, 0..3, {0, 1}, {12, LR}, 1, {0})
WimpCloseDown == Shim(\h400DD, {0, 1}, {}, {0, 1}, {}, {2, 3, 12, LR}, None, {})

HandShims ==
  {OsWritec, OsWrite0, OsGetenv, OsMemLimit, HeapInit, HeapAlloc, HeapFree,
   ModWrite0, ModWritec, ModNewline, ModClaim, ModFree,
   WimpInitialise, WimpCloseDown}

RuntimeShims == GeneratedShims \cup HandShims
=============================================================================
