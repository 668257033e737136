CONSTANTS
  d = d
  w1 = w1
  w2 = w2
  r1 = r1
  r2 = r2
  r3 = r3
  sensor = sensor
  sensor_io = sensor_io
  nobody = nobody
  Dispatcher = d
  Workers = {w1, w2}
  Nobody = nobody
  Channels = {sensor, sensor_io}
  Sensor = sensor
  SensorIo = sensor_io
  Requests = {r1, r2}
  Menu <- EveryOperation
  PanicAbort = FALSE
SPECIFICATION FairSpec
PROPERTY Answered
