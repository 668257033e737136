----------------------------- MODULE MCCameraFiles -----------------------------
(* Finite instances of CameraFiles for TLC.                                    *)
EXTENDS CameraFiles

\* Spellings of the entries of the cameras below.
SomeIndices == "0" :> "0" @@ "00" :> "0" @@ "1" :> "1"

SomeKeys == "0x00" :> "0x00" @@ "0b0" :> "0x00" @@ "0x01" :> "0x01"
              @@ "Any" :> "Any" @@ "any" :> "Any" @@ "7" :> "0x07"

SomeNumbers == "0" :> "0" @@ "1" :> "1" @@ "1.0" :> "1" @@ "2" :> "2"

\* Two bytes of address, with a slice and without.
Near == Address("0" :> "16" @@ "1" :> "32", Slice)
Far  == Address("0" :> "1", None)

Registers ==
  "gain" :> Register(Near, [width |-> Scalar("2"), range |-> MinMax, description |-> LongAndShort])

\* A camera whose sensor has one function, with this value map.
With(map) ==
  Camera([sensor    |-> RegisterSetting(I2CCdev, Registers, "f" :> Function(Near, None, map, Scalar("1"))),
          sensor_io |-> RegisterSetting(MMAPGPIO,
                          "reset" :> Register(Far, "description" :> Simple), <<>>)])

\* Keyword maps with and without a default, a numeric map, none.
AllCameras ==
  {With(Keywords("0x00" :> "a" @@ "0x01" :> "1")),
   With(Keywords("0x00" :> "a" @@ "Any" :> "b")),
   With(Numeric("0x00" :> "1" @@ "Any" :> "2")),
   With(None)}

Sensor(path) == <<"registers", "sensor">> \o path
Gain(path)   == Sensor(<<"map", "gain">> \o path)
Func(path)   == Sensor(<<"functions", "f">> \o path)

AllPaths ==
  {<<>>, <<"model">>, <<"model", "x">>, <<"registers">>, <<"registers", "x">>, Sensor(<<>>),
   Sensor(<<"channel">>), Sensor(<<"channel", "bus">>), Sensor(<<"channel", "dev">>),
   Sensor(<<"map">>), Gain(<<>>), Gain(<<"address">>), Gain(<<"address", "base">>),
   Gain(<<"address", "base", "1">>), Gain(<<"address", "base", "00">>),
   Gain(<<"address", "slice", "end">>), Gain(<<"width">>), Gain(<<"default", "x">>),
   Gain(<<"range">>), Gain(<<"description", "long">>), Gain(<<"value">>), Gain(<<"value", "x">>),
   Func(<<>>), Func(<<"map">>), Func(<<"map", "0x00">>), Func(<<"map", "0b0">>),
   Func(<<"map", "0x01">>), Func(<<"map", "Any">>), Func(<<"map", "any">>),
   Func(<<"map", "x">>), Func(<<"default">>), Func(<<"map", "0x00", "x">>), Func(<<"value">>),
   <<"registers", "sensor_io", "channel">>, <<"registers", "sensor_io", "map", "reset", "width">>,
   <<"scripts", "reset">>, <<"scripts", "reset", "value">>, <<"scripts", "x", "value">>}
================================================================================
